---- MODULE Spec2Model ----
(***************************************************************************)
(* Model of the chat sample of nanobase-examples (apps/chat-app/index.ts)  *)
(* on top of the shared client (apps/todo-app/client.ts).                  *)
(*                                                                         *)
(* Each ChatApp instance is a client with its own session field `user`.   *)
(* Every `await` of a store or notifier call is one atomic step of the     *)
(* remote service; the steps of calls running on different clients         *)
(* interleave freely.  The record store and the notifier are remote        *)
(* services: a collection is a list of records in insertion order, ids     *)
(* are assigned in sequence, a find without orderBy answers in insertion   *)
(* order, and an update or delete of an id that is not stored is answered  *)
(* with success = false, which NanobaseClient.fetch turns into a throw.    *)
(***************************************************************************)
EXTENDS Integers, Sequences, FiniteSets, TLC

\* ------------------------------------------------------------- bounds
MaxRooms == 2
MaxMsgs == 2
MaxTime == 2

Users == {"u1", "u2", "u3"}
Clients == {"c1", "c2"}
NoUser == "none"
Names == {"dev"}
Contents == {"", "hi"}
Types == {"text"}

Times == 1..MaxTime
RoomIds == 1..MaxRooms
MsgIds == 1..MaxMsgs

VARIABLES user, rooms, messages, sent, pc, loc, last

\* TodoApp: the session, the todos collection, the reminders requested from
\* the notifier, the clock, and the position and the locals of the running call.
VARIABLES todoUser, todos, reminders, now, todoPc, todoLoc

\* ClickerGame: the component's state, the leaderboard collection, the
\* pending timeout, the render whose effect has not run yet, and the endGame
\* calls waiting for the store's answer.
VARIABLES score, timeLeft, isPlaying, myBest, leaderboard, timer, effect, ending

\* No date argument; the todo the running call holds when none is running.
Undefined == [text |-> "undefined", ms |-> 0]

NoTodo == [id |-> 0, title |-> "", dueDate |-> Undefined]

\* No timeout pending; no render waiting for its effect.
NoTimer == -1

NoRender == [due |-> FALSE, score |-> 0, myBest |-> 0]

\* GameApp: the session, the save_data, achievements and leaderboard
\* collections, the unlock notifications sent, the position and the locals of
\* each running call, the call that returned last, and the data of the
\* saveGame that completed last for each slot.
VARIABLES player, saves, achievements, scores, unlockSent, gamePc, gameLoc,
          gameLast, saved

chatVars == <<user, rooms, messages, sent, pc, loc, last>>

todoVars == <<todoUser, todos, reminders, now, todoPc, todoLoc>>

clickerVars == <<score, timeLeft, isPlaying, myBest, leaderboard, timer, effect, ending>>

gameVars == <<player, saves, achievements, scores, unlockSent, gamePc, gameLoc,
              gameLast, saved>>

\* The state of the other sample apps, which no ChatApp operation touches.
otherVars == <<todoVars, clickerVars, gameVars>>

vars == <<chatVars, todoVars, clickerVars, gameVars>>

\* ------------------------------------------------------------- helpers

\* JavaScript's default Array.prototype.sort order on the user ids.
Rank(u) == CASE u = "u1" -> 1 [] u = "u2" -> 2 [] u = "u3" -> 3 [] OTHER -> 0

SortPairUnsorted(a, b) == <<a, b>>

\* [this.user.id, otherUserId].sort()
SortPair(a, b) == IF Rank(a) <= Rank(b) THEN <<a, b>> ELSE <<b, a>>

IncludesNever(s, x) == FALSE

Includes(s, x) == \E i \in 1..Len(s) : s[i] = x

FilterOutKeepsAll(s, u) == s

FilterOutInverted(s, u) == SelectSeq(s, LAMBDA x : x = u)

\* members.filter(id => id !== u)
FilterOut(s, u) == SelectSeq(s, LAMBDA x : x # u)

DedupKeepsAll(s) == s

RECURSIVE Dedup(_)
\* [...new Set(s)]: first occurrences, in order
Dedup(s) ==
  IF s = <<>> THEN <<>>
  ELSE LET init == Dedup(SubSeq(s, 1, Len(s) - 1))
           x == s[Len(s)]
       IN IF Includes(init, x) THEN init ELSE Append(init, x)

Reverse(s) == [i \in 1..Len(s) |-> s[Len(s) + 1 - i]]

Range(s) == {s[i] : i \in 1..Len(s)}

\* ------------------------------------------------------------- state

NoRoom ==
  [live |-> FALSE, name |-> "", type |-> "none", members |-> <<>>,
   createdAt |-> 0, lastMessageAt |-> 0]

IdleLoc ==
  [roomId |-> 0, other |-> NoUser, ids |-> <<>>, snap |-> <<>>,
   msgId |-> 0, todo |-> <<>>, writes |-> 0, calls |-> 0]

NoCall ==
  [client |-> "none", op |-> "none", user |-> NoUser, arg |-> 0,
   other |-> NoUser, err |-> "none", val |-> 0, writes |-> 0, calls |-> 0,
   list |-> <<>>, snap |-> <<>>, answer |-> <<>>]

\* TodoApp after construction: nobody logged in, an empty store, no call running.
TodoInit ==
  /\ todoUser = NoUser
  /\ todos = <<>>
  /\ reminders = <<>>
  /\ now = 0
  /\ todoPc = "idle"
  /\ todoLoc = NoTodo

\* useState(10): the countdown shown before the first round
InitialTimeLeft == 10

\* ClickerGame after mounting: no round yet, an empty leaderboard.
ClickerInit ==
  /\ score = 0
  /\ timeLeft = InitialTimeLeft
  /\ isPlaying = FALSE
  /\ myBest = 0
  /\ leaderboard = <<>>
  /\ timer = NoTimer
  /\ effect = NoRender
  /\ ending = <<>>

\* The calls that can run on the GameApp instance at the same time.
Calls == {"k1", "k2"}

Slots == {1, 2}

\* No save data; no achievement.
NoData == ""

NoAchievement == ""

GameIdle ==
  [slot |-> 0, data |-> NoData, playtime |-> 0, existing |-> 0,
   achievementId |-> NoAchievement, next |-> NoAchievement, op |-> "none", arg |-> 0]

\* GameApp after construction: nobody logged in, empty collections.
GameInit ==
  /\ player = NoUser
  /\ saves = <<>>
  /\ achievements = <<>>
  /\ scores = <<>>
  /\ unlockSent = <<>>
  /\ gamePc = [k \in Calls |-> "idle"]
  /\ gameLoc = [k \in Calls |-> GameIdle]
  /\ gameLast = [call |-> "none", op |-> "none", arg |-> 0, val |-> NoData, writes |-> 0]
  /\ saved = [s \in Slots |-> NoData]

OtherAppsInit == TodoInit /\ ClickerInit /\ GameInit

Init ==
  /\ user = [c \in Clients |-> NoUser]
  /\ rooms = <<>>
  /\ messages = <<>>
  /\ sent = <<>>
  /\ pc = [c \in Clients |-> "idle"]
  /\ loc = [c \in Clients |-> IdleLoc]
  /\ last = NoCall
  /\ OtherAppsInit

\* The call running on client c returns (err = "none") or throws; answer is
\* the list the store answered the call's find with, where the call keeps it.
ReturnWith(c, op, arg, other, err, val, writes, calls, list, snap, answer) ==
  /\ pc' = [pc EXCEPT ![c] = "idle"]
  /\ loc' = [loc EXCEPT ![c] = IdleLoc]
  /\ last' = [client |-> c, op |-> op, user |-> user[c], arg |-> arg,
              other |-> other, err |-> err, val |-> val, writes |-> writes,
              calls |-> calls, list |-> list, snap |-> snap, answer |-> answer]

Return(c, op, arg, other, err, val, writes, calls, list, snap) ==
  ReturnWith(c, op, arg, other, err, val, writes, calls, list, snap, <<>>)

Live(r) == r \in 1..Len(rooms) /\ rooms[r].live

AuthenticatedAlways(c) == TRUE

\* The guard every operation starts with: if (!this.user) throw 'Not authenticated'
Authenticated(c) == user[c] # NoUser

\* data.findOne('chat_rooms', {where: {id: r}}): the record, or null
FindOneRoom(r) == IF Live(r) THEN rooms[r] ELSE NoRoom

IsNullNever(room) == FALSE

\* if (!room)
IsNull(room) == ~room.live

\* ------------------------------------------------------------- session

\* this.user is null: reading this.user.id throws a TypeError
Unset(c) == user[c] = NoUser

\* this.user = result.user of a login call that runs on the instance while
\* another call of the instance waits for an answer
LoginBeside(c, u) ==
  /\ pc[c] \notin {"idle", "login_presence"}
  /\ user' = [user EXCEPT ![c] = u]
  /\ UNCHANGED <<rooms, messages, sent, pc, loc, last>>
  /\ UNCHANGED otherVars

\* this.user = null of a logout call that runs on the instance while another
\* call of the instance waits for an answer
LogoutBeside(c) ==
  /\ pc[c] \notin {"idle", "login_presence"}
  /\ user' = [user EXCEPT ![c] = NoUser]
  /\ UNCHANGED <<rooms, messages, sent, pc, loc, last>>
  /\ UNCHANGED otherVars

\* login whose authentication and presence calls both succeed, as one step
Login(c, u) ==
  /\ pc[c] = "idle"
  /\ user[c] = NoUser
  /\ user' = [user EXCEPT ![c] = u]
  /\ UNCHANGED <<rooms, messages, sent, pc, loc, last>>
  /\ UNCHANGED otherVars

Logout(c) ==
  /\ pc[c] = "idle"
  /\ user[c] # NoUser
  /\ user' = [user EXCEPT ![c] = NoUser]
  /\ UNCHANGED <<rooms, messages, sent, pc, loc, last>>
  /\ UNCHANGED otherVars

\* login up to the answer of auth.login; ok = the success flag of the answer.
\* With the credentials accepted the session is set before presence is tracked.
LoginAuth(c, u, ok) ==
  /\ pc[c] = "idle"
  /\ IF ~ok
       THEN /\ Return(c, "login", 0, u, "AuthError", 0, 0, 1, <<>>, <<>>)
            /\ UNCHANGED user
       ELSE /\ user' = [user EXCEPT ![c] = u]
            /\ pc' = [pc EXCEPT ![c] = "login_presence"]
            /\ loc' = [loc EXCEPT ![c] = [IdleLoc EXCEPT !.other = u, !.calls = 1]]
            /\ UNCHANGED last
  /\ UNCHANGED <<rooms, messages, sent>>
  /\ UNCHANGED otherVars

\* updatePresence and the return of login; ok = the success flag of the
\* answer to monitor.track, which is not called when the session is unset.
LoginPresence(c, ok) ==
  /\ pc[c] = "login_presence"
  /\ IF ~Authenticated(c)
       THEN Return(c, "login", 0, loc[c].other, "none", 0, 0, 1, <<>>, <<>>)
       ELSE IF ~ok
         THEN Return(c, "login", 0, loc[c].other, "ApiError", 0, 0, 2, <<>>, <<>>)
         ELSE Return(c, "login", 0, loc[c].other, "none", 0, 0, 2, <<>>, <<>>)
  /\ UNCHANGED <<user, rooms, messages, sent>>
  /\ UNCHANGED otherVars

\* ------------------------------------------------------------- rooms

\* data.find('chat_rooms', {where: {type: 'direct', members: pair}})
FindDirect(pair) ==
  SelectSeq([i \in 1..Len(rooms) |-> i],
            LAMBDA r : rooms[r].live /\ rooms[r].type = "direct"
                       /\ rooms[r].members = pair)

\* Room creations that may still append a record.
PendingCreates == Cardinality({c \in Clients : pc[c] = "cd_create"})

CreateDirectFind(c, o) ==
  /\ pc[c] = "idle"
  /\ Len(rooms) + PendingCreates < MaxRooms
  /\ IF ~Authenticated(c)
       THEN /\ Return(c, "createDirectRoom", 0, o, "NotAuthenticated", 0, 0, 0, <<>>, <<>>)
            /\ UNCHANGED <<user, rooms, messages, sent>>
       ELSE LET existing == FindDirect(SortPair(user[c], o))
            IN IF Len(existing) > 0
                 THEN /\ Return(c, "createDirectRoom", 0, o, "none", existing[1], 0, 1, <<>>, <<>>)
                      /\ UNCHANGED <<user, rooms, messages, sent>>
                 ELSE /\ pc' = [pc EXCEPT ![c] = "cd_create"]
                      /\ loc' = [loc EXCEPT ![c] = [IdleLoc EXCEPT !.other = o, !.calls = 1]]
                      /\ UNCHANGED <<user, rooms, messages, sent, last>>
  /\ UNCHANGED otherVars

CreateDirectCreate(c, t1, t2) ==
  /\ pc[c] = "cd_create"
  /\ t1 <= t2
  /\   /\ rooms' = Append(rooms,
            [live |-> TRUE, name |-> "", type |-> "direct",
             members |-> SortPair(user[c], loc[c].other),
             createdAt |-> t1, lastMessageAt |-> t2])
       /\ Return(c, "createDirectRoom", 0, loc[c].other, "none", Len(rooms) + 1,
                 1, 2, <<>>, <<>>)
  /\ UNCHANGED <<user, messages, sent>>
  /\ UNCHANGED otherVars

\* Argument lists of createGroupRoom: up to two ids, repeats allowed.
MemberLists ==
  {<<>>} \cup {<<u>> : u \in Users} \cup {<<u, v>> : u \in Users, v \in Users}

CreateGroupRoom(c, name, memberIds, t1, t2) ==
  /\ pc[c] = "idle"
  /\ Len(rooms) + PendingCreates < MaxRooms
  /\ t1 <= t2
  /\ IF ~Authenticated(c)
       THEN /\ Return(c, "createGroupRoom", 0, NoUser, "NotAuthenticated", 0, 0, 0, <<>>, <<>>)
            /\ UNCHANGED <<user, rooms, messages, sent>>
       ELSE   /\ rooms' = Append(rooms,
                   [live |-> TRUE, name |-> name, type |-> "group",
                    members |-> Dedup(<<user[c]>> \o memberIds),
                    createdAt |-> t1, lastMessageAt |-> t2])
              /\ Return(c, "createGroupRoom", 0, NoUser, "none", Len(rooms) + 1,
                        1, 1, <<>>, memberIds)
              /\ UNCHANGED <<user, messages, sent>>
  /\ UNCHANGED otherVars

LeaveFind(c, r) ==
  /\ pc[c] = "idle"
  /\ IF ~Authenticated(c)
       THEN /\ Return(c, "leaveRoom", r, NoUser, "NotAuthenticated", 0, 0, 0, <<>>, <<>>)
            /\ UNCHANGED <<user, rooms, messages, sent>>
       ELSE IF IsNull(FindOneRoom(r))
         THEN /\ Return(c, "leaveRoom", r, NoUser, "NotFound", 0, 0, 1, <<>>, <<>>)
              /\ UNCHANGED <<user, rooms, messages, sent>>
         ELSE /\ pc' = [pc EXCEPT ![c] = "leave_write"]
              /\ loc' = [loc EXCEPT ![c] =
                   [IdleLoc EXCEPT !.roomId = r, !.snap = FindOneRoom(r).members,
                                   !.calls = 1]]
              /\ UNCHANGED <<user, rooms, messages, sent, last>>
  /\ UNCHANGED otherVars

MembersReadAgain(c) == FindOneRoom(loc[c].roomId).members

\* room.members of the record the findOne of this call returned
MembersRead(c) == loc[c].snap

LeaveWrite(c) ==
  /\ pc[c] = "leave_write"
  /\ LET r == loc[c].roomId
         updatedMembers == FilterOut(MembersRead(c), user[c])
     IN IF Unset(c) /\ MembersRead(c) # <<>>
          THEN /\ Return(c, "leaveRoom", r, NoUser, "TypeError", 0, 0, 1, <<>>, loc[c].snap)
               /\ UNCHANGED rooms
        ELSE IF ~Live(r)
          THEN /\ Return(c, "leaveRoom", r, NoUser, "ApiError", 0, 0, 2, <<>>, loc[c].snap)
               /\ UNCHANGED rooms
          ELSE /\ rooms' = [rooms EXCEPT ![r] =
                    IF Len(updatedMembers) = 0 THEN NoRoom
                    ELSE [@ EXCEPT !.members = updatedMembers]]
               /\ Return(c, "leaveRoom", r, NoUser, "none", 0, 1, 2, <<>>, loc[c].snap)
  /\ UNCHANGED <<user, messages, sent>>
  /\ UNCHANGED otherVars

\* The orders in which the store may answer orderBy {lastMessageAt: 'desc'}:
\* descending by lastMessageAt, equal timestamps in an order the store picks.
RoomDescOrders(ids) ==
  {s \in [1..Len(ids) -> Range(ids)] :
     /\ \A i, j \in 1..Len(ids) : i # j => s[i] # s[j]
     /\ \A i \in 1..Len(ids) - 1 :
          rooms[s[i]].lastMessageAt >= rooms[s[i + 1]].lastMessageAt}

\* data.find('chat_rooms', {where: {members: {$contains: this.user.id}}, orderBy})
GetRooms(c) ==
  /\ pc[c] = "idle"
  /\ IF ~Authenticated(c)
       THEN Return(c, "getRooms", 0, NoUser, "NotAuthenticated", 0, 0, 0, <<>>, <<>>)
       ELSE \E s \in RoomDescOrders(
                       SelectSeq([i \in 1..Len(rooms) |-> i],
                                 LAMBDA r : rooms[r].live
                                            /\ Includes(rooms[r].members, user[c]))) :
              Return(c, "getRooms", 0, NoUser, "none", 0, 0, 1, s, <<>>)
  /\ UNCHANGED <<user, rooms, messages, sent>>
  /\ UNCHANGED otherVars

\* ------------------------------------------------------------- messages

InitialReadByEmpty(u) == <<>>

\* readBy: [this.user.id]
InitialReadBy(u) == <<u>>

AddReaderReplaces(readBy, u) == <<u>>

\* readBy: [...message.readBy, this.user.id]
AddReader(readBy, u) == Append(readBy, u)

\* A message can still be appended only while the collection has room for it.
\* ok = the success flag of the store's answer to the create: fetch throws
\* when it is false.
SendMessageCreate(c, r, content, type, t, ok) ==
  /\ pc[c] = "idle"
  /\ Len(messages) < MaxMsgs
  /\ IF ~Authenticated(c)
       THEN /\ Return(c, "sendMessage", r, NoUser, "NotAuthenticated", 0, 0, 0, <<>>, <<>>)
            /\ UNCHANGED <<user, rooms, messages, sent>>
       ELSE IF ~ok
         THEN /\ Return(c, "sendMessage", r, NoUser, "ApiError", 0, 0, 1, <<>>, <<>>)
              /\ UNCHANGED <<user, rooms, messages, sent>>
         ELSE /\ messages' = Append(messages,
                   [roomId |-> r, userId |-> user[c], content |-> content,
                    type |-> type, readBy |-> InitialReadBy(user[c]),
                    createdAt |-> t])
              /\ pc' = [pc EXCEPT ![c] = "send_touch"]
              /\ loc' = [loc EXCEPT ![c] =
                   [IdleLoc EXCEPT !.roomId = r, !.msgId = Len(messages) + 1,
                                   !.writes = 1, !.calls = 1]]
              /\ UNCHANGED <<user, rooms, sent, last>>
  /\ UNCHANGED otherVars

TouchedAtLatest(room, message) == [room EXCEPT !.lastMessageAt = MaxTime]

\* {lastMessageAt: message.createdAt}
Touched(room, message) == [room EXCEPT !.lastMessageAt = message.createdAt]

\* data.update('chat_rooms', roomId, {lastMessageAt: message.createdAt})
SendMessageTouch(c) ==
  /\ pc[c] = "send_touch"
  /\ LET r == loc[c].roomId
         m == loc[c].msgId
     IN IF ~Live(r)
          THEN /\ Return(c, "sendMessage", r, NoUser, "ApiError", m, 1, 2, <<>>, <<>>)
               /\ UNCHANGED rooms
          ELSE /\ rooms' = [rooms EXCEPT ![r] = Touched(@, messages[m])]
               /\ pc' = [pc EXCEPT ![c] = "send_lookup"]
               /\ loc' = [loc EXCEPT ![c].writes = 2, ![c].calls = 2]
               /\ UNCHANGED last
  /\ UNCHANGED <<user, messages, sent>>
  /\ UNCHANGED otherVars

\* notifyMembers: the room lookup, the recipient list, and the argument of
\* the first notify.send, whose senderId is read from the session now
SendMessageLookup(c) ==
  /\ pc[c] = "send_lookup"
  /\ LET r == loc[c].roomId
         m == loc[c].msgId
         room == FindOneRoom(r)
     IN IF IsNull(room)
          THEN Return(c, "sendMessage", r, NoUser, "none", m, 2, 3, <<>>, <<>>)
        ELSE IF Unset(c) /\ room.members # <<>>
          THEN Return(c, "sendMessage", r, NoUser, "TypeError", m, 2, 3, <<>>, room.members)
          ELSE LET otherMembers == FilterOut(room.members, user[c])
               IN IF otherMembers = <<>>
                    THEN Return(c, "sendMessage", r, NoUser, "none", m, 2, 3,
                                <<>>, room.members)
                    ELSE /\ pc' = [pc EXCEPT ![c] = "send_notify"]
                         /\ loc' = [loc EXCEPT ![c].todo = otherMembers,
                                               ![c].snap = room.members,
                                               ![c].other = user[c],
                                               ![c].calls = 3]
                         /\ UNCHANGED last
  /\ UNCHANGED <<user, rooms, messages, sent>>
  /\ UNCHANGED otherVars

\* notifyMembers: one notify.send of the loop answered (delivered = the
\* service's success flag), and the argument of the next one, whose senderId
\* is read from the session then
\* The number of characters of the content that a notification quotes.
PreviewLen == 50

\* The characters of a content, as their codes: "exact" stands for a text of
\* exactly PreviewLen characters and "long" for one of two more, all distinct.
Chars(content) ==
  CASE content = "" -> <<>>
    [] content = "hi" -> <<104, 105>>
    [] content = "exact" -> [i \in 1..PreviewLen |-> 1000 + i]
    [] content = "long" -> [i \in 1..(PreviewLen + 2) |-> 1000 + i]

\* String.prototype.substring(start, end) for 0 <= start <= end: the
\* characters at the 0-based positions start .. end-1 that exist.
SubstringOneMore(str, start, end) ==
  [i \in 1..((IF end + 1 < Len(str) THEN end + 1 ELSE Len(str)) - start)
     |-> str[start + i]]

Substring(str, start, end) ==
  [i \in 1..((IF end < Len(str) THEN end ELSE Len(str)) - start)
     |-> str[start + i]]

\* The text of a notification: the fixed label, then the preview.
NotificationText(content) ==
  <<"label">> \o Substring(Chars(content), 0, PreviewLen)

SendMessageNotify(c, delivered) ==
  /\ pc[c] = "send_notify"
  /\ LET r == loc[c].roomId
         m == loc[c].msgId
         memberId == Head(loc[c].todo)
         rest == Tail(loc[c].todo)
     IN /\ sent' = Append(sent,
             [userId |-> memberId, roomId |-> r, messageId |-> m,
              senderId |-> loc[c].other, ok |-> delivered,
              message |-> NotificationText(messages[m].content)])
        /\ IF ~delivered
             THEN Return(c, "sendMessage", r, NoUser, "NotifyError", m, 2,
                         loc[c].calls + 1, <<>>, loc[c].snap)
             ELSE IF rest = <<>>
               THEN Return(c, "sendMessage", r, NoUser, "none", m, 2,
                           loc[c].calls + 1, <<>>, loc[c].snap)
             ELSE IF Unset(c)
               THEN Return(c, "sendMessage", r, NoUser, "TypeError", m, 2,
                           loc[c].calls + 1, <<>>, loc[c].snap)
               ELSE /\ loc' = [loc EXCEPT ![c].todo = rest, ![c].other = user[c],
                                          ![c].calls = @ + 1]
                    /\ UNCHANGED <<pc, last>>
  /\ UNCHANGED <<user, rooms, messages>>
  /\ UNCHANGED otherVars

\* Ids of the stored messages, in insertion order.
StoredMessages == [i \in 1..Len(messages) |-> i]

\* The orders in which the store may answer orderBy {createdAt: 'desc'}:
\* descending by createdAt, equal timestamps in an order the store picks.
DescOrders(ids) ==
  {s \in [1..Len(ids) -> Range(ids)] :
     /\ \A i, j \in 1..Len(ids) : i # j => s[i] # s[j]
     /\ \A i \in 1..Len(ids) - 1 :
          messages[s[i]].createdAt >= messages[s[i + 1]].createdAt}

ApplyLimitAlways(s, limit) == SubSeq(s, 1, IF limit < Len(s) THEN limit ELSE Len(s))

\* DataClient.find: the limit parameter is sent only when it is truthy
ApplyLimit(s, limit) ==
  IF limit # 0 THEN SubSeq(s, 1, IF limit < Len(s) THEN limit ELSE Len(s)) ELSE s

Limits == 0..MaxMsgs

GetMessages(c, r, limit) ==
  /\ pc[c] = "idle"
  /\ IF ~Authenticated(c)
       THEN Return(c, "getMessages", r, NoUser, "NotAuthenticated", limit, 0, 0, <<>>, <<>>)
       ELSE \E s \in DescOrders(SelectSeq(StoredMessages, LAMBDA m : messages[m].roomId = r)) :
              ReturnWith(c, "getMessages", r, NoUser, "none", limit, 0, 1,
                         Reverse(ApplyLimit(s, limit)), <<>>, s)
  /\ UNCHANGED <<user, rooms, messages, sent>>
  /\ UNCHANGED otherVars

\* Batches of markAsRead: up to two message ids.
IdLists ==
  {<<>>} \cup {<<i>> : i \in MsgIds} \cup {<<i, j>> : i \in MsgIds, j \in MsgIds}

MarkAsRead(c, messageIds) ==
  /\ pc[c] = "idle"
  /\ IF ~Authenticated(c)
       THEN Return(c, "markAsRead", 0, NoUser, "NotAuthenticated", 0, 0, 0, messageIds, <<>>)
       ELSE IF messageIds = <<>>
         THEN Return(c, "markAsRead", 0, NoUser, "none", 0, 0, 0, messageIds, <<>>)
         ELSE /\ pc' = [pc EXCEPT ![c] = "mark_find"]
              /\ loc' = [loc EXCEPT ![c] = [IdleLoc EXCEPT !.ids = messageIds]]
              /\ UNCHANGED last
  /\ UNCHANGED <<user, rooms, messages, sent>>
  /\ UNCHANGED otherVars

\* One findOne of the loop; a message already read by the user, or absent, is
\* skipped.  ok = the success flag of the store's answer: NanobaseClient.fetch
\* throws when it is false, and the loop has no try/catch.
MarkAsReadFind(c, ok) ==
  /\ pc[c] = "mark_find"
  /\ LET m == Head(loc[c].ids)
         rest == Tail(loc[c].ids)
     IN IF ~ok
          THEN Return(c, "markAsRead", 0, NoUser, "ApiError", m, loc[c].writes,
                      loc[c].calls + 1, loc[c].ids, <<>>)
        ELSE IF m \in 1..Len(messages) /\ Unset(c)
          THEN Return(c, "markAsRead", 0, NoUser, "TypeError", m, loc[c].writes,
                      loc[c].calls + 1, loc[c].ids, <<>>)
        ELSE IF m \in 1..Len(messages) /\ ~Includes(messages[m].readBy, user[c])
          THEN /\ pc' = [pc EXCEPT ![c] = "mark_write"]
               /\ loc' = [loc EXCEPT ![c].snap = messages[m].readBy,
                                     ![c].other = user[c],
                                     ![c].calls = @ + 1]
               /\ UNCHANGED last
          ELSE IF rest = <<>>
            THEN Return(c, "markAsRead", 0, NoUser, "none", 0, loc[c].writes,
                        loc[c].calls + 1, <<>>, <<>>)
            ELSE /\ loc' = [loc EXCEPT ![c].ids = rest, ![c].calls = @ + 1]
                 /\ UNCHANGED <<pc, last>>
  /\ UNCHANGED <<user, rooms, messages, sent>>
  /\ UNCHANGED otherVars

SetReadByOnly(message, readBy) ==
  [roomId |-> 0, userId |-> NoUser, content |-> "", type |-> "",
   readBy |-> readBy, createdAt |-> 0]

\* DataClient.update: PATCH of the one field, the rest of the record stays
SetReadBy(message, readBy) == [message EXCEPT !.readBy = readBy]

\* data.update('messages', messageId, {readBy: [...message.readBy, this.user.id]})
MarkAsReadWrite(c, ok) ==
  /\ pc[c] = "mark_write"
  /\ LET m == Head(loc[c].ids)
         rest == Tail(loc[c].ids)
     IN IF ~ok
          THEN /\ Return(c, "markAsRead", 0, NoUser, "ApiError", m, loc[c].writes,
                         loc[c].calls + 1, loc[c].ids, <<>>)
               /\ UNCHANGED messages
          ELSE /\ messages' = [messages EXCEPT
                                  ![m] = SetReadBy(@, AddReader(loc[c].snap, loc[c].other))]
               /\ IF rest = <<>>
                    THEN Return(c, "markAsRead", 0, NoUser, "none", 0, loc[c].writes + 1,
                                loc[c].calls + 1, <<>>, <<>>)
                    ELSE /\ pc' = [pc EXCEPT ![c] = "mark_find"]
                         /\ loc' = [loc EXCEPT ![c].ids = rest, ![c].snap = <<>>,
                                               ![c].other = NoUser,
                                               ![c].writes = @ + 1, ![c].calls = @ + 1]
                         /\ UNCHANGED last
  /\ UNCHANGED <<user, rooms, sent>>
  /\ UNCHANGED otherVars

UnreadInAnyRoom(u, r) ==
  SelectSeq(StoredMessages, LAMBDA m : ~Includes(messages[m].readBy, u))

\* The messages getUnreadCount(roomId) of user u counts; r = 0 stands for no roomId.
Unread(u, r) ==
  SelectSeq(StoredMessages,
            LAMBDA m : ~Includes(messages[m].readBy, u)
                       /\ (r # 0 => messages[m].roomId = r))

GetUnreadCount(c, r) ==
  /\ pc[c] = "idle"
  /\ IF ~Authenticated(c)
       THEN Return(c, "getUnreadCount", r, NoUser, "NotAuthenticated", 0, 0, 0, <<>>, <<>>)
       ELSE Return(c, "getUnreadCount", r, NoUser, "none", Len(Unread(user[c], r)),
                   0, 1, <<>>, <<>>)
  /\ UNCHANGED <<user, rooms, messages, sent>>
  /\ UNCHANGED otherVars

\* ------------------------------------------------------------- specifications

Next ==
  \/ \E c \in Clients, u \in Users : Login(c, u)
  \/ \E c \in Clients : Logout(c)
  \/ \E c \in Clients, o \in Users : CreateDirectFind(c, o)
  \/ \E c \in Clients, t1 \in Times, t2 \in Times : CreateDirectCreate(c, t1, t2)
  \/ \E c \in Clients, n \in Names, ms \in MemberLists, t1 \in Times, t2 \in Times :
       CreateGroupRoom(c, n, ms, t1, t2)
  \/ \E c \in Clients, r \in RoomIds : LeaveFind(c, r)
  \/ \E c \in Clients : LeaveWrite(c)
  \/ \E c \in Clients : GetRooms(c)
  \/ \E c \in Clients, r \in RoomIds, x \in Contents, ty \in Types, t \in Times,
        ok \in BOOLEAN :
       SendMessageCreate(c, r, x, ty, t, ok)
  \/ \E c \in Clients : SendMessageTouch(c)
  \/ \E c \in Clients : SendMessageLookup(c)
  \/ \E c \in Clients, d \in BOOLEAN : SendMessageNotify(c, d)
  \/ \E c \in Clients, r \in RoomIds, n \in Limits : GetMessages(c, r, n)
  \/ \E c \in Clients, ids \in IdLists : MarkAsRead(c, ids)
  \/ \E c \in Clients, ok \in BOOLEAN : MarkAsReadFind(c, ok)
  \/ \E c \in Clients, ok \in BOOLEAN : MarkAsReadWrite(c, ok)
  \/ \E c \in Clients, r \in 0..MaxRooms : GetUnreadCount(c, r)

Spec == Init /\ [][Next]_vars

\* The member lists the scenarios pass to createGroupRoom: none, two other
\* users, a repeated id.
SomeMemberLists == {<<>>, <<"u2", "u3">>, <<"u1", "u1">>}

\* No call is running on another client: calls do not overlap.
OthersIdle(c) == \A d \in Clients \ {c} : pc[d] = "idle"

\* No call is running at all.
Quiet == \A c \in Clients : pc[c] = "idle"

\* Room operations, one call at a time.
NextSeqRooms ==
  \/ \E c \in Clients, u \in Users : OthersIdle(c) /\ Login(c, u)
  \/ \E c \in Clients, o \in Users : OthersIdle(c) /\ CreateDirectFind(c, o)
  \/ \E c \in Clients : OthersIdle(c) /\ CreateDirectCreate(c, 1, 1)
  \/ \E c \in Clients, n \in Names, ms \in SomeMemberLists :
       OthersIdle(c) /\ CreateGroupRoom(c, n, ms, 1, 1)
  \/ \E c \in Clients, r \in RoomIds : OthersIdle(c) /\ LeaveFind(c, r)
  \/ \E c \in Clients : OthersIdle(c) /\ LeaveWrite(c)

SpecSeqRooms == Init /\ [][NextSeqRooms]_vars

\* u1 is logged in on c1 and u2 on c2 (two Login steps after Init).
InitSessions ==
  /\ user = [c \in Clients |-> IF c = "c1" THEN "u1" ELSE "u2"]
  /\ rooms = <<>>
  /\ messages = <<>>
  /\ sent = <<>>
  /\ pc = [c \in Clients |-> "idle"]
  /\ loc = [c \in Clients |-> IdleLoc]
  /\ last = NoCall
  /\ OtherAppsInit

\* Room operations of two logged-in users, their steps interleaving.
NextRooms ==
  \/ \E c \in Clients, o \in Users : CreateDirectFind(c, o)
  \/ \E c \in Clients : CreateDirectCreate(c, 1, 1)
  \/ \E c \in Clients, n \in Names, ms \in SomeMemberLists :
       CreateGroupRoom(c, n, ms, 1, 1)
  \/ \E c \in Clients, r \in RoomIds : LeaveFind(c, r)
  \/ \E c \in Clients : LeaveWrite(c)

SpecRooms == InitSessions /\ [][NextRooms]_vars

\* A chat in progress: u1 created the group room 1 with u2 and u3 and the
\* direct room 2 with u2; u3 then sent message 1 into room 1 from c2 and
\* logged out, and u2 logged in on c2.
ChatRooms ==
  << [live |-> TRUE, name |-> "dev", type |-> "group",
      members |-> <<"u1", "u2", "u3">>, createdAt |-> 1, lastMessageAt |-> 1],
     [live |-> TRUE, name |-> "", type |-> "direct",
      members |-> <<"u1", "u2">>, createdAt |-> 1, lastMessageAt |-> 1] >>

ChatMessages ==
  << [roomId |-> 1, userId |-> "u3", content |-> "hi", type |-> "text",
      readBy |-> <<"u3">>, createdAt |-> 1] >>

ChatSent ==
  << [userId |-> "u1", roomId |-> 1, messageId |-> 1, senderId |-> "u3",
        ok |-> TRUE, message |-> NotificationText(ChatMessages[1].content)],
     [userId |-> "u2", roomId |-> 1, messageId |-> 1, senderId |-> "u3",
        ok |-> TRUE, message |-> NotificationText(ChatMessages[1].content)] >>

ChatLast ==
  [client |-> "c2", op |-> "sendMessage", user |-> "u3", arg |-> 1,
   other |-> NoUser, err |-> "none", val |-> 1, writes |-> 2, calls |-> 5,
   list |-> <<>>, snap |-> <<"u1", "u2", "u3">>, answer |-> <<>>]

InitChat ==
  /\ user = [c \in Clients |-> IF c = "c1" THEN "u1" ELSE "u2"]
  /\ rooms = ChatRooms
  /\ messages = ChatMessages
  /\ sent = ChatSent
  /\ pc = [c \in Clients |-> "idle"]
  /\ loc = [c \in Clients |-> IdleLoc]
  /\ last = ChatLast
  /\ OtherAppsInit

\* Sending, reading and counting in the chat in progress, one call at a time.
NextSeqRead ==
  \/ \E c \in Clients, r \in RoomIds :
       OthersIdle(c) /\ SendMessageCreate(c, r, "hi", "text", 1, TRUE)
  \/ \E c \in Clients : OthersIdle(c) /\ SendMessageTouch(c)
  \/ \E c \in Clients : OthersIdle(c) /\ SendMessageLookup(c)
  \/ \E c \in Clients : OthersIdle(c) /\ SendMessageNotify(c, TRUE)
  \/ \E c \in Clients, ids \in IdLists : OthersIdle(c) /\ MarkAsRead(c, ids)
  \/ \E c \in Clients : OthersIdle(c) /\ MarkAsReadFind(c, TRUE)
  \/ \E c \in Clients : OthersIdle(c) /\ MarkAsReadWrite(c, TRUE)
  \/ \E c \in Clients, r \in 0..MaxRooms : OthersIdle(c) /\ GetUnreadCount(c, r)

SpecSeqRead == InitChat /\ [][NextSeqRead]_vars

\* The same operations with the steps of the two clients interleaving.
NextRead ==
  \/ \E c \in Clients, r \in RoomIds : SendMessageCreate(c, r, "hi", "text", 1, TRUE)
  \/ \E c \in Clients : SendMessageTouch(c)
  \/ \E c \in Clients : SendMessageLookup(c)
  \/ \E c \in Clients : SendMessageNotify(c, TRUE)
  \/ \E c \in Clients, ids \in IdLists : MarkAsRead(c, ids)
  \/ \E c \in Clients : MarkAsReadFind(c, TRUE)
  \/ \E c \in Clients : MarkAsReadWrite(c, TRUE)
  \/ \E c \in Clients, r \in 0..MaxRooms : GetUnreadCount(c, r)

SpecRead == InitChat /\ [][NextRead]_vars

\* Sending at any clock reading and listing with any limit, one call at a time.
NextList ==
  \/ \E c \in Clients, r \in RoomIds, t \in Times :
       OthersIdle(c) /\ SendMessageCreate(c, r, "hi", "text", t, TRUE)
  \/ \E c \in Clients : OthersIdle(c) /\ SendMessageTouch(c)
  \/ \E c \in Clients : OthersIdle(c) /\ SendMessageLookup(c)
  \/ \E c \in Clients : OthersIdle(c) /\ SendMessageNotify(c, TRUE)
  \/ \E c \in Clients, r \in RoomIds, n \in Limits : OthersIdle(c) /\ GetMessages(c, r, n)

SpecList == InitChat /\ [][NextList]_vars

\* Creating rooms and sending with a notifier that may fail, one call at a time.
NextSend ==
  \/ \E c \in Clients, o \in Users : OthersIdle(c) /\ CreateDirectFind(c, o)
  \/ \E c \in Clients : OthersIdle(c) /\ CreateDirectCreate(c, 1, 1)
  \/ \E c \in Clients, n \in Names :
       OthersIdle(c) /\ CreateGroupRoom(c, n, <<"u2", "u3">>, 1, 1)
  \/ \E c \in Clients, r \in RoomIds, x \in Contents :
       OthersIdle(c) /\ SendMessageCreate(c, r, x, "text", 1, TRUE)
  \/ \E c \in Clients : OthersIdle(c) /\ SendMessageTouch(c)
  \/ \E c \in Clients : OthersIdle(c) /\ SendMessageLookup(c)
  \/ \E c \in Clients, d \in BOOLEAN : OthersIdle(c) /\ SendMessageNotify(c, d)

SpecSend == InitSessions /\ [][NextSend]_vars

\* The steps that lead from Init to InitSessions and to InitChat.
NextSetup ==
  \/ \E c \in Clients, u \in Users : OthersIdle(c) /\ Login(c, u)
  \/ \E c \in Clients : OthersIdle(c) /\ Logout(c)
  \/ OthersIdle("c1") /\ CreateDirectFind("c1", "u2")
  \/ OthersIdle("c1") /\ CreateDirectCreate("c1", 1, 1)
  \/ \E n \in Names : OthersIdle("c1") /\ CreateGroupRoom("c1", n, <<"u2", "u3">>, 1, 1)
  \/ OthersIdle("c2") /\ SendMessageCreate("c2", 1, "hi", "text", 1, TRUE)
  \/ OthersIdle("c2") /\ SendMessageTouch("c2")
  \/ OthersIdle("c2") /\ SendMessageLookup("c2")
  \/ OthersIdle("c2") /\ SendMessageNotify("c2", TRUE)

SpecSetup == Init /\ [][NextSetup]_vars

\* ------------------------------------------------------------- properties

\* A createDirectRoom call that returned a room.
OkDirect(call) == call.op = "createDirectRoom" /\ call.err = "none"

\* The stored direct rooms whose members are the users a and b.
DirectRoomsOf(a, b, rs) ==
  {r \in 1..Len(rs) : rs[r].live /\ rs[r].type = "direct"
                      /\ Range(rs[r].members) = {a, b}}

C1_Step ==
  (/\ last' # last
   /\ OkDirect(last) /\ OkDirect(last')
   /\ last.user # last.other
   /\ last'.user = last.other /\ last'.other = last.user)
  => /\ last'.val = last.val
     /\ last'.writes = 0
     /\ rooms' = rooms
     /\ DirectRoomsOf(last.user, last.other, rooms') = {last.val}

\* C1: when user A's createDirectRoom(B) has returned and the next call to
\* return is user B's createDirectRoom(A), the second call returns the same
\* room id, writes nothing to the store, and the store holds exactly one
\* direct room of A and B.
C1_DirectRoomIdempotent == [][C1_Step]_vars

\* u2 named u1 and was handed, without a write, the room stored as <<u1, u2>>.
C1_Witness ==
  /\ Quiet /\ OkDirect(last)
  /\ last.user = "u2" /\ last.other = "u1" /\ last.writes = 0
  /\ last.val \in 1..Len(rooms)
  /\ rooms[last.val].members = <<"u1", "u2">>
  /\ \E c \in Clients : user[c] = "u1"

\* C2: in every reachable state there is at most one direct room for any
\* unordered pair of distinct users, also when the find and the create of two
\* concurrent createDirectRoom calls interleave.
C2_AtMostOneDirectRoom ==
  \A a \in Users, b \in Users :
    a # b => Cardinality(DirectRoomsOf(a, b, rooms)) <= 1

NoEmptyRoom ==
  \A r \in 1..Len(rooms) : rooms[r].live => Len(rooms[r].members) >= 1

\* Client c completes a leaveRoom of room r in this step, as the only member left.
LastMemberLeaves(c, r) ==
  /\ pc[c] = "leave_write" /\ pc'[c] = "idle"
  /\ loc[c].roomId = r
  /\ Range(rooms[r].members) = {user[c]}

C5_Step ==
  \A r \in 1..Len(rooms) :
    rooms[r].live =>
      (~rooms'[r].live <=> \E c \in Clients : LastMemberLeaves(c, r))

\* C5: with calls that do not overlap, no stored room has an empty member
\* list, and a stored room is deleted in exactly the steps in which its last
\* member leaves.
C5_RoomExistsIffMembers == []NoEmptyRoom /\ [][C5_Step]_vars

\* A room was stored and is gone now that a leaveRoom on it has returned.
C5_Witness ==
  /\ Quiet
  /\ last.op = "leaveRoom" /\ last.err = "none"
  /\ last.arg \in 1..Len(rooms) /\ ~rooms[last.arg].live
  /\ \E r \in 1..Len(rooms) : rooms[r].live

C3_Step ==
  \A m \in 1..Len(messages) :
    Range(messages[m].readBy) \subseteq Range(messages'[m].readBy)

\* C3: with markAsRead calls that do not overlap, every step leaves each
\* message's readBy a superset of what it was: no call removes an id.
C3_ReadReceiptsMonotonic == [][C3_Step]_vars

\* Message 1 of u3 has been marked as read by u1 and by u2.
C3_Witness ==
  /\ Quiet
  /\ last.op = "markAsRead" /\ last.writes >= 1
  /\ Range(messages[1].readBy) = {"u1", "u2", "u3"}

C4_Step ==
  \A m \in 1..Len(messages) : \A u \in Users :
    Includes(messages[m].readBy, u) => Includes(messages'[m].readBy, u)

\* C4: a user id that is in a message's readBy stays in it in every later
\* state, also when the read and the write of two concurrent markAsRead calls
\* on that message interleave.
C4_ReaderNeverRemoved == [][C4_Step]_vars

C6_Step ==
  Len(messages') > Len(messages) =>
    LET m == messages'[Len(messages')]
    IN /\ m.readBy = <<m.userId>>
       /\ \E c \in Clients :
            pc[c] = "idle" /\ pc'[c] = "send_touch" /\ m.userId = user[c]

\* C6: a message is persisted by sendMessage with readBy holding exactly its
\* author, the user who sent it.
C6_SenderHasRead == [][C6_Step]_vars

\* A message has just been persisted and its sendMessage has not gone further.
C6_Witness ==
  \E c \in Clients :
    /\ pc[c] = "send_touch"
    /\ messages[loc[c].msgId].userId = user[c]
    /\ messages[loc[c].msgId].readBy = <<user[c]>>

\* The number of messages of room r in msgs that user u has not read.
CountUnread(msgs, u, r) ==
  Cardinality({m \in 1..Len(msgs) :
                 msgs[m].roomId = r /\ u \notin Range(msgs[m].readBy)})

C10_Returned ==
  (Quiet /\ last.op = "getUnreadCount" /\ last.err = "none" /\ last.arg # 0)
  => last.val = CountUnread(messages, last.user, last.arg)

C10_Step ==
  /\ Len(messages') > Len(messages) =>
       LET m == messages'[Len(messages')]
       IN \A u \in Users \ {m.userId} :
            CountUnread(messages', u, m.roomId)
              = CountUnread(messages, u, m.roomId) + 1
  /\ \A c \in Clients :
       (pc[c] = "mark_write" /\ pc'[c] # "mark_write") =>
         LET m == Head(loc[c].ids)
         IN CountUnread(messages', user[c], messages[m].roomId)
              = CountUnread(messages, user[c], messages[m].roomId) - 1

\* C10: getUnreadCount(roomId) returns the number of the room's stored
\* messages whose readBy lacks the caller; a message appended by another
\* user raises that number by one and the caller's markAsRead of a message
\* lowers it by one.
C10_UnreadCount == []C10_Returned /\ [][C10_Step]_vars

\* u2 is told 0 for a room holding another user's message that u2 has read.
C10_Witness ==
  /\ Quiet
  /\ last.op = "getUnreadCount" /\ last.err = "none"
  /\ last.user = "u2" /\ last.arg # 0 /\ last.val = 0
  /\ \E m \in 1..Len(messages) :
       /\ messages[m].roomId = last.arg
       /\ messages[m].userId # "u2"
       /\ Includes(messages[m].readBy, "u2")

\* The stored messages of room r.
RoomMessages(r) == {m \in 1..Len(messages) : messages[m].roomId = r}

Min(a, b) == IF a <= b THEN a ELSE b

\* list holds the n most recent messages of room r, oldest first.
MostRecent(list, r, n) ==
  /\ Len(list) <= n
  /\ Len(list) = Min(n, Cardinality(RoomMessages(r)))
  /\ Range(list) \subseteq RoomMessages(r)
  /\ \A i, j \in 1..Len(list) : i # j => list[i] # list[j]
  /\ \A i \in 1..Len(list) - 1 :
       messages[list[i]].createdAt <= messages[list[i + 1]].createdAt
  /\ \A m \in RoomMessages(r) \ Range(list) : \A x \in Range(list) :
       messages[m].createdAt <= messages[x].createdAt

\* C7: getMessages(roomId, N) returns, for every N >= 0, at most N messages,
\* all of that room, ascending by createdAt: the N most recent of the room,
\* or all of them when the room has fewer.
C7_MostRecentMessages ==
  (Quiet /\ last.op = "getMessages" /\ last.err = "none")
  => MostRecent(last.list, last.arg, last.val)

\* The notifier calls made for message m and addressed to user u.
NotifyCalls(m, u) ==
  {i \in 1..Len(sent) : sent[i].messageId = m /\ sent[i].userId = u}

\* A sendMessage call that has returned or thrown after reading the room's members.
SentToRoom == Quiet /\ last.op = "sendMessage" /\ last.snap # <<>>

\* C8: a sendMessage that succeeds in a room with members M has issued
\* exactly one notifier call for each member other than the sender, and none
\* for the sender or for anybody else.
C8_OneCallPerRecipient ==
  (SentToRoom /\ last.err = "none")
  => \A u \in Users :
       Cardinality(NotifyCalls(last.val, u))
         = IF u \in Range(last.snap) \ {last.user} THEN 1 ELSE 0

\* C9: a failing notifier call neither makes sendMessage fail nor keeps the
\* other recipients from being notified.
C9_BestEffortFanout ==
  SentToRoom
  => /\ last.err = "none"
     /\ \A u \in Range(last.snap) \ {last.user} : NotifyCalls(last.val, u) # {}

\* C11: every stored direct room has exactly two distinct member ids,
\* whatever createDirectRoom calls (a user naming their own id included) and
\* leaveRoom calls have been made.
C11_DirectRoomHasTwoMembers ==
  \A r \in 1..Len(rooms) :
    (rooms[r].live /\ rooms[r].type = "direct")
    => /\ Len(rooms[r].members) = 2
       /\ rooms[r].members[1] # rooms[r].members[2]

\* Two clients with clocks of their own create a group room and send into it,
\* their calls overlapping.
NextTouch ==
  \/ \E c \in Clients, n \in Names, t \in Times :
       CreateGroupRoom(c, n, <<"u1", "u2">>, t, t)
  \/ \E c \in Clients, r \in RoomIds, t \in Times :
       SendMessageCreate(c, r, "hi", "text", t, TRUE)
  \/ \E c \in Clients : SendMessageTouch(c)
  \/ \E c \in Clients : SendMessageLookup(c)
  \/ \E c \in Clients : SendMessageNotify(c, TRUE)

SpecTouch == InitSessions /\ [][NextTouch]_vars

\* C12: the lastMessageAt of a stored room never decreases, whatever
\* sendMessage calls run and however they interleave, senders whose message
\* carries an older createdAt than the stored value included.
C12_LastMessageAtMonotonic ==
  [][\A r \in 1..Len(rooms) :
       (rooms[r].live /\ rooms'[r].live)
       => rooms'[r].lastMessageAt >= rooms[r].lastMessageAt]_vars

\* A sendMessage call of a logged-in user has ended and its room is not stored.
SentToAbsentRoom ==
  /\ Quiet
  /\ last.op = "sendMessage" /\ last.user # NoUser
  /\ ~Live(last.arg)

\* C13: a sendMessage addressed to a room id that is absent from the store
\* fails with the not-found error.
C13_AbsentRoomNotFound == SentToAbsentRoom => last.err = "NotFound"

\* C14: every stored message was created while a room with its roomId was
\* stored: no sendMessage call, failed or not, appends a message for an
\* absent room.
C14_NoMessageForAbsentRoom ==
  [][Len(messages') > Len(messages) => Live(messages'[Len(messages')].roomId)]_vars

\* C15: a sendMessage with empty content is rejected before anything is
\* written: no stored message has empty content, so none moves a room's
\* lastMessageAt or is announced to a member.
C15_EmptyContentRejected ==
  /\ \A m \in 1..Len(messages) : messages[m].content # ""
  /\ (Quiet /\ last.op = "sendMessage" /\ last.user # NoUser
        /\ last.val # 0 /\ messages[last.val].content = "")
     => last.err = "InvalidArgument"

\* Everybody has logged out of a chat in progress: room 1 and its message
\* are stored, the direct room has not been created.
InitLoggedOut ==
  /\ user = [c \in Clients |-> NoUser]
  /\ rooms = <<ChatRooms[1]>>
  /\ messages = ChatMessages
  /\ sent = ChatSent
  /\ pc = [c \in Clients |-> "idle"]
  /\ loc = [c \in Clients |-> IdleLoc]
  /\ last = ChatLast
  /\ OtherAppsInit

\* A session that opens and closes between calls: client c1 invokes every
\* operation, logged in as u1 and logged out, one call at a time.
NextSession ==
  \/ Login("c1", "u1")
  \/ Logout("c1")
  \/ CreateDirectFind("c1", "u2")
  \/ CreateDirectCreate("c1", 1, 1)
  \/ \E n \in Names : CreateGroupRoom("c1", n, <<>>, 1, 1)
  \/ GetRooms("c1")
  \/ \E r \in RoomIds : LeaveFind("c1", r)
  \/ LeaveWrite("c1")
  \/ \E r \in RoomIds : SendMessageCreate("c1", r, "hi", "text", 1, TRUE)
  \/ SendMessageTouch("c1")
  \/ SendMessageLookup("c1")
  \/ SendMessageNotify("c1", TRUE)
  \/ \E r \in RoomIds : GetMessages("c1", r, 0)
  \/ \E m \in MsgIds : MarkAsRead("c1", <<m>>)
  \/ MarkAsReadFind("c1", TRUE)
  \/ MarkAsReadWrite("c1", TRUE)
  \/ GetUnreadCount("c1", 0)

SpecSession == InitLoggedOut /\ [][NextSession]_vars

\* The operations of ChatApp that need a session.
SessionOps ==
  {"createDirectRoom", "createGroupRoom", "getRooms", "leaveRoom", "sendMessage",
   "getMessages", "markAsRead", "getUnreadCount"}

\* A call made without a session has thrown 'Not authenticated' before its
\* first store or notifier call.
C16_Returned ==
  (last.op # "none" /\ last.user = NoUser)
  => /\ last.op \in SessionOps
     /\ last.err = "NotAuthenticated"
     /\ last.calls = 0 /\ last.writes = 0

\* A client without a session never gets past the first step of a call, and
\* the step that ends its call leaves rooms, messages and notifications as
\* they were.
C16_Step ==
  \A c \in Clients :
    user[c] = NoUser
    => /\ pc'[c] = "idle"
       /\ (last' # last /\ last'.client = c)
          => /\ last'.user = NoUser
             /\ <<rooms', messages', sent'>> = <<rooms, messages, sent>>

\* C16: with no active session, before login or after logout, sendMessage
\* and every other operation (createDirectRoom, createGroupRoom, getRooms,
\* leaveRoom, getMessages, markAsRead, getUnreadCount) fails with the
\* not-authenticated error before any store or notifier call is issued, and
\* the store is unchanged.
C16_NotAuthenticated == []C16_Returned /\ [][C16_Step]_vars

\* After u1 has marked a message as read and logged out again, a
\* sendMessage has been refused.
C16_Witness ==
  /\ \A c \in Clients : user[c] = NoUser
  /\ \E m \in 1..Len(messages) : Includes(messages[m].readBy, "u1")
  /\ last.op = "sendMessage" /\ last.user = NoUser
  /\ last.err = "NotAuthenticated"

\* A leaveRoom of a logged-in user that finds no room ends at once with
\* 'Room not found' and without a write, and no leaveRoom goes on to its
\* update or delete for a room that its lookup did not find.
C17_Step ==
  /\ (/\ last' # last
      /\ last'.op = "leaveRoom" /\ last'.user # NoUser
      /\ pc[last'.client] = "idle"
      /\ ~Live(last'.arg))
     => /\ last'.err = "NotFound"
        /\ last'.writes = 0
        /\ rooms' = rooms
  /\ \A c \in Clients :
       (pc[c] = "idle" /\ pc'[c] = "leave_write") => Live(loc'[c].roomId)

\* C17: leaveRoom on a room id that is absent from the store fails with the
\* not-found error and performs no update or delete.
C17_LeaveAbsentRoomNotFound == [][C17_Step]_vars

\* A leaveRoom on a room that was deleted before has been refused.
C17_Witness ==
  /\ last.op = "leaveRoom" /\ last.err = "NotFound" /\ last.writes = 0
  /\ last.arg \in 1..Len(rooms) /\ ~rooms[last.arg].live

\* Sending and marking as read against a store whose answers may be
\* failures, one call at a time.
NextMark ==
  \/ \E c \in Clients, r \in RoomIds :
       OthersIdle(c) /\ SendMessageCreate(c, r, "hi", "text", 1, TRUE)
  \/ \E c \in Clients : OthersIdle(c) /\ SendMessageTouch(c)
  \/ \E c \in Clients : OthersIdle(c) /\ SendMessageLookup(c)
  \/ \E c \in Clients : OthersIdle(c) /\ SendMessageNotify(c, TRUE)
  \/ \E c \in Clients, ids \in IdLists : OthersIdle(c) /\ MarkAsRead(c, ids)
  \/ \E c \in Clients, ok \in BOOLEAN : OthersIdle(c) /\ MarkAsReadFind(c, ok)
  \/ \E c \in Clients, ok \in BOOLEAN : OthersIdle(c) /\ MarkAsReadWrite(c, ok)

SpecMark == InitChat /\ [][NextMark]_vars

\* C18: a failure on one id does not abort a markAsRead batch: when the
\* fetch or the update of one message fails, that id is skipped, every other
\* id of the batch is still processed, and the call does not fail.
C18_BatchNotAborted ==
  (Quiet /\ last.op = "markAsRead" /\ last.user # NoUser)
  => /\ last.err = "none"
     /\ \A i \in 2..Len(last.list) :
          last.list[i] \in 1..Len(messages)
          => Includes(messages[last.list[i]].readBy, last.user)

\* The room names the group scenario uses.
GroupNames == Names \cup {"ops"}

\* Group rooms created one call at a time, with every argument list and with
\* names that repeat, and listed by their members.
NextGroup ==
  \/ \E c \in Clients, n \in GroupNames, ms \in MemberLists :
       OthersIdle(c) /\ CreateGroupRoom(c, n, ms, 1, 1)
  \/ \E c \in Clients : OthersIdle(c) /\ GetRooms(c)

SpecGroup == InitSessions /\ [][NextGroup]_vars

\* A createGroupRoom(n, ms) step of a logged-in user appends one room: a
\* group room named n whose members are the creator and the ids of ms, each
\* once, and leaves the rooms already stored as they were.
C20_Step ==
  \A c \in Clients, n \in GroupNames, ms \in MemberLists :
    (/\ Authenticated(c)
     /\ last'.op = "createGroupRoom" /\ last'.client = c /\ last'.snap = ms
     /\ CreateGroupRoom(c, n, ms, 1, 1))
    => LET id == Len(rooms) + 1
       IN /\ Len(rooms') = id
          /\ last'.err = "none" /\ last'.val = id
          /\ \A r \in 1..Len(rooms) : rooms'[r] = rooms[r]
          /\ rooms'[id].live /\ rooms'[id].type = "group"
          /\ rooms'[id].name = n
          /\ Range(rooms'[id].members) = {user[c]} \cup Range(ms)
          /\ Cardinality(Range(rooms'[id].members)) = Len(rooms'[id].members)

\* C20: createGroupRoom(name, memberIds) by user s stores a group room whose
\* members are exactly the duplicate-free union of s and memberIds (the
\* creator is always a member, no id appears twice); the name is stored
\* verbatim, and two calls with the same name create two distinct rooms.
C20_GroupRoomMembers == [][C20_Step]_vars

\* u1 has created a second room named like the first, passing their own id
\* and u2 twice over: the new room has members u1 and u2, once each.
C20_Witness ==
  /\ Len(rooms) = 2
  /\ rooms[1].name = rooms[2].name /\ rooms[1].live /\ rooms[2].live
  /\ last.op = "createGroupRoom" /\ last.val = 2 /\ last.user = "u1"
  /\ last.snap = <<"u2", "u1">>
  /\ rooms[2].members = <<"u1", "u2">>

\* Rooms created at the latest clock reading, then left, written to by
\* senders whose clocks may be behind, and listed, one call at a time.
NextRoomList ==
  \/ \E c \in Clients, n \in Names :
       OthersIdle(c) /\ CreateGroupRoom(c, n, <<"u1", "u2">>, MaxTime, MaxTime)
  \/ \E c \in Clients, r \in RoomIds : OthersIdle(c) /\ LeaveFind(c, r)
  \/ \E c \in Clients : OthersIdle(c) /\ LeaveWrite(c)
  \/ \E c \in Clients, r \in RoomIds, t \in Times :
       OthersIdle(c) /\ SendMessageCreate(c, r, "hi", "text", t, TRUE)
  \/ \E c \in Clients : OthersIdle(c) /\ SendMessageTouch(c)
  \/ \E c \in Clients : OthersIdle(c) /\ SendMessageLookup(c)
  \/ \E c \in Clients : OthersIdle(c) /\ SendMessageNotify(c, TRUE)
  \/ \E c \in Clients : OthersIdle(c) /\ GetRooms(c)

SpecRoomList == InitSessions /\ [][NextRoomList]_vars

\* The stored rooms user u is a member of.
RoomsOf(u) == {r \in 1..Len(rooms) : rooms[r].live /\ Includes(rooms[r].members, u)}

\* list holds exactly the rooms of u, each once, most recently active first.
RoomListOf(list, u) ==
  /\ Range(list) = RoomsOf(u)
  /\ \A i, j \in 1..Len(list) : i # j => list[i] # list[j]
  /\ \A i \in 1..Len(list) - 1 :
       rooms[list[i]].lastMessageAt >= rooms[list[i + 1]].lastMessageAt

\* C21: getRooms of user u returns exactly the stored rooms whose members
\* contain u, by lastMessageAt descending, so a room u has left is not
\* returned; and a message sent into a room moves the room to the front of
\* its members' lists: once sendMessage has returned, no room of a member
\* has a later lastMessageAt than the room written to.
C21_RoomList ==
  /\ (Quiet /\ last.op = "getRooms" /\ last.err = "none")
     => RoomListOf(last.list, last.user)
  /\ (Quiet /\ last.op = "sendMessage" /\ last.err = "none" /\ Live(last.arg))
     => \A u \in Range(rooms[last.arg].members) : \A r \in RoomsOf(u) :
          rooms[last.arg].lastMessageAt >= rooms[r].lastMessageAt

\* Sending into the direct room, reading, and leaving the rooms of the chat
\* in progress, one call at a time.
NextFrame ==
  \/ \E c \in Clients : OthersIdle(c) /\ SendMessageCreate(c, 2, "hi", "text", 1, TRUE)
  \/ \E c \in Clients : OthersIdle(c) /\ SendMessageTouch(c)
  \/ \E c \in Clients : OthersIdle(c) /\ SendMessageLookup(c)
  \/ \E c \in Clients : OthersIdle(c) /\ SendMessageNotify(c, TRUE)
  \/ \E c \in Clients, m \in MsgIds : OthersIdle(c) /\ MarkAsRead(c, <<m>>)
  \/ \E c \in Clients : OthersIdle(c) /\ MarkAsReadFind(c, TRUE)
  \/ \E c \in Clients : OthersIdle(c) /\ MarkAsReadWrite(c, TRUE)
  \/ \E c \in Clients, r \in RoomIds : OthersIdle(c) /\ LeaveFind(c, r)
  \/ \E c \in Clients : OthersIdle(c) /\ LeaveWrite(c)

SpecFrame == InitChat /\ [][NextFrame]_vars

\* Every stored message stays stored under its id with the roomId, userId,
\* content, type and createdAt it was created with, and its readBy changes
\* only in the update step of a markAsRead.
C22_Step ==
  /\ Len(messages') >= Len(messages)
  /\ \A m \in 1..Len(messages) :
       /\ messages'[m].roomId = messages[m].roomId
       /\ messages'[m].userId = messages[m].userId
       /\ messages'[m].content = messages[m].content
       /\ messages'[m].type = messages[m].type
       /\ messages'[m].createdAt = messages[m].createdAt
       /\ messages'[m].readBy # messages[m].readBy
          => \E c \in Clients : pc[c] = "mark_write" /\ Head(loc[c].ids) = m

\* C22: a message's id, roomId, userId, content, type and createdAt never
\* change after creation and no chat operation deletes a message, not even a
\* leaveRoom that deletes its room; readBy is the only field an operation
\* changes on a stored message, and only markAsRead changes it.
C22_MessageImmutable == [][C22_Step]_vars

\* The direct room has been deleted by its last member; a message sent into
\* it is still stored and has been read by both users.
C22_Witness ==
  /\ ~rooms[2].live
  /\ \E m \in 1..Len(messages) :
       /\ messages[m].roomId = 2 /\ messages[m].content = "hi"
       /\ Len(messages[m].readBy) = 2

\* The step that ends a successful leaveRoom of room r by one of at least two
\* members: u is gone from the members and nobody else is, the room keeps
\* its name, type, createdAt and lastMessageAt, and every other room and
\* every message is as before.
C25_Step ==
  LET r == last'.arg
      u == last'.user
  IN (/\ last' # last
      /\ last'.op = "leaveRoom" /\ last'.err = "none"
      /\ Includes(rooms[r].members, u)
      /\ Cardinality(Range(rooms[r].members)) >= 2)
     => /\ rooms'[r].live
        /\ Range(rooms'[r].members) = Range(rooms[r].members) \ {u}
        /\ Len(rooms'[r].members) = Len(rooms[r].members) - 1
        /\ rooms'[r].name = rooms[r].name
        /\ rooms'[r].type = rooms[r].type
        /\ rooms'[r].createdAt = rooms[r].createdAt
        /\ rooms'[r].lastMessageAt = rooms[r].lastMessageAt
        /\ Len(rooms') = Len(rooms)
        /\ \A q \in 1..Len(rooms) : q # r => rooms'[q] = rooms[q]
        /\ messages' = messages

\* C25: leaveRoom by a member u of a room with at least two members removes
\* exactly u: the members are the previous ones without u, the room's name,
\* type, createdAt and lastMessageAt are unchanged, and no other room and no
\* message is changed.
C25_LeaveRemovesExactlyTheLeaver == [][C25_Step]_vars

\* u2 has left the group of u1, u2 and u3, which now holds u1 and u3.
C25_Witness ==
  /\ last.op = "leaveRoom" /\ last.err = "none" /\ last.user = "u2"
  /\ last.arg = 1 /\ last.snap = <<"u1", "u2", "u3">>
  /\ rooms[1].members = <<"u1", "u3">>
  /\ Len(messages) = 2

\* Client c is about to write the members it read for room r, among them
\* itself and user d, whose own leaveRoom on r has returned successfully in
\* the meantime and removed d.
LostLeave(c, d) ==
  /\ pc[c] = "leave_write"
  /\ Live(loc[c].roomId)
  /\ last.op = "leaveRoom" /\ last.err = "none"
  /\ last.arg = loc[c].roomId /\ last.user = d
  /\ d # user[c]
  /\ Includes(loc[c].snap, d) /\ Includes(loc[c].snap, user[c])
  /\ ~Includes(rooms[loc[c].roomId].members, d)

\* The write of the second leaver succeeds and lists the first leaver again.
C26_Step ==
  \A c \in Clients, d \in Users :
    (LostLeave(c, d) /\ pc'[c] = "idle")
    => /\ last'.client = c /\ last'.op = "leaveRoom" /\ last'.err = "none"
       /\ rooms'[last'.arg].live
       /\ Includes(rooms'[last'.arg].members, d)
       /\ ~Includes(rooms'[last'.arg].members, user[c])

\* C26: concurrent leaves can lose an update: when two members of a room
\* call leaveRoom and each reads the member list before the other writes,
\* both calls return successfully and the one that wrote first is still
\* listed in the room's members, so the room exists although both have left.
C26_LostLeave == [][C26_Step]_vars

\* u1 and u2 both read the members of their room; u1's leaveRoom has
\* returned, and u2 is about to write the list that still names u1.
C26_Witness ==
  /\ LostLeave("c2", "u1")
  /\ user["c2"] = "u2"
  /\ pc["c1"] = "idle" /\ last.client = "c1"

\* How often user u is listed in readBy.
Occurrences(readBy, u) == Cardinality({i \in 1..Len(readBy) : readBy[i] = u})

\* A markAsRead([m]) of a user whom readBy of m lists already, the author of
\* m or somebody who has marked it before, returns without a store update
\* and leaves the messages as they are; and whenever a markAsRead([m])
\* returns, readBy of m lists the user once.
C27_Step ==
  \A c \in Clients :
    (pc[c] \in {"mark_find", "mark_write"} /\ Len(loc[c].ids) = 1
       /\ Head(loc[c].ids) \in 1..Len(messages))
    => LET m == Head(loc[c].ids)
       IN /\ (pc[c] = "mark_find"
                /\ Occurrences(messages[m].readBy, user[c]) > 0)
             => /\ pc'[c] = "idle"
                /\ last'.op = "markAsRead" /\ last'.err = "none"
                /\ last'.writes = 0
                /\ messages' = messages
          /\ pc'[c] = "idle"
             => Occurrences(messages'[m].readBy, user[c]) = 1

\* C27: markAsRead is idempotent without redundant writes: markAsRead([id])
\* called twice by the same user leaves readBy as one call does, with the
\* user's id listed once, and the second call issues no store update; a
\* call by the message's author issues no update either.
C27_MarkAsReadIdempotent == [][C27_Step]_vars

\* u1 has marked the message of u3 and written one of their own, and a
\* further markAsRead of u1 has returned after its lookup, without a write.
C27_Witness ==
  /\ Quiet
  /\ Len(messages) = 2
  /\ messages[1].readBy = <<"u3", "u1">>
  /\ messages[2].userId = "u1" /\ messages[2].readBy = <<"u1">>
  /\ last.op = "markAsRead" /\ last.user = "u1" /\ last.err = "none"
  /\ last.writes = 0 /\ last.calls = 1

\* Overlapping sendMessage calls in the chat in progress, against a store
\* that may refuse the create.
NextOrder ==
  \/ \E c \in Clients, r \in RoomIds, t \in Times, ok \in BOOLEAN :
       SendMessageCreate(c, r, "hi", "text", t, ok)
  \/ \E c \in Clients : SendMessageTouch(c)
  \/ \E c \in Clients : SendMessageLookup(c)
  \/ \E c \in Clients : SendMessageNotify(c, TRUE)

SpecOrder == InitChat /\ [][NextOrder]_vars

\* Every notification names a stored message.
C28_Notified == \A i \in 1..Len(sent) : sent[i].messageId \in 1..Len(messages)

\* A sendMessage call first appends its message, then writes that message's
\* createdAt into the room, then looks the members up and notifies them; a
\* call whose create is refused ends there and then.
C28_Step ==
  /\ \A c \in Clients :
       /\ (pc'[c] = "send_touch" /\ pc[c] # "send_touch")
          => /\ pc[c] = "idle"
             /\ Len(messages') = Len(messages) + 1
             /\ loc'[c].msgId = Len(messages')
             /\ rooms' = rooms /\ sent' = sent
       /\ (pc'[c] = "send_lookup" /\ pc[c] # "send_lookup")
          => /\ pc[c] = "send_touch"
             /\ rooms'[loc[c].roomId].lastMessageAt
                  = messages[loc[c].msgId].createdAt
             /\ messages' = messages /\ sent' = sent
       /\ (pc'[c] = "send_notify" /\ pc[c] # "send_notify")
          => /\ pc[c] = "send_lookup"
             /\ <<rooms', messages', sent'>> = <<rooms, messages, sent>>
  /\ rooms' # rooms => \E c \in Clients : pc[c] = "send_touch"
  /\ sent' # sent
     => /\ Len(sent') = Len(sent) + 1
        /\ \E c \in Clients :
             /\ pc[c] = "send_notify"
             /\ sent'[Len(sent')].messageId = loc[c].msgId
             /\ loc[c].msgId \in 1..Len(messages)
             /\ messages[loc[c].msgId].roomId = sent'[Len(sent')].roomId
  /\ (last' # last /\ last'.op = "sendMessage" /\ last'.err = "ApiError"
        /\ last'.calls = 1)
     => <<rooms', messages', sent'>> = <<rooms, messages, sent>>

\* C28: within one sendMessage the steps happen in the order persist the
\* message, set the room's lastMessageAt to that message's createdAt, fan
\* out the notifications; so every notifier call carries the id of a message
\* that is already stored, and nothing is notified when the create fails.
C28_SendOrder == []C28_Notified /\ [][C28_Step]_vars

\* A second message, created at 2, has been stored, has moved its room's
\* lastMessageAt to 2 and has then been announced.
C28_Witness ==
  /\ Len(messages) = 2 /\ messages[2].createdAt = 2
  /\ rooms[messages[2].roomId].lastMessageAt = 2
  /\ Len(sent) > 2 /\ sent[Len(sent)].messageId = 2
  /\ last.op = "sendMessage" /\ last.err = "none" /\ last.val = 2

\* The contents the preview scenario sends: empty, short, exactly as long as
\* a preview, longer than a preview.
PreviewContents == {"", "hi", "exact", "long"}

\* One call at a time in the chat in progress: messages of every length are
\* sent and announced.
NextPreview ==
  \/ \E c \in Clients, r \in RoomIds, x \in PreviewContents, t \in Times :
       OthersIdle(c) /\ SendMessageCreate(c, r, x, "text", t, TRUE)
  \/ \E c \in Clients : SendMessageTouch(c)
  \/ \E c \in Clients : SendMessageLookup(c)
  \/ \E c \in Clients, d \in BOOLEAN : SendMessageNotify(c, d)

SpecPreview == InitChat /\ [][NextPreview]_vars

\* C29: every notification issued for a message quotes, after the label, the
\* first 50 characters of the message's content (all of it when it is
\* shorter) and nothing else, and its metadata name the room, the id and the
\* author of that message.
C29_PreviewAndMetadata ==
  \A i \in 1..Len(sent) :
    /\ sent[i].messageId \in 1..Len(messages)
    /\ LET message == messages[sent[i].messageId]
           text == Chars(message.content)
           preview == Tail(sent[i].message)
       IN /\ Len(preview) = (IF Len(text) < PreviewLen THEN Len(text) ELSE PreviewLen)
          /\ \A k \in 1..Len(preview) : preview[k] = text[k]
          /\ sent[i].roomId = message.roomId
          /\ sent[i].senderId = message.userId

\* A message longer than a preview has been announced with a preview of
\* exactly PreviewLen characters.
C29_Witness ==
  \E i \in 1..Len(sent) :
    /\ sent[i].messageId = 2
    /\ Len(messages) >= 2 /\ messages[2].content = "long"
    /\ Len(sent[i].message) = PreviewLen + 1

\* Position of id x in the list s.
PositionIn(s, x) == CHOOSE i \in 1..Len(s) : s[i] = x

\* C30: two messages of a room with the same createdAt come back from
\* getMessages in the relative order in which the store reported them: the
\* reversal of the descending answer does not swap tied messages.
C30_TiesKeepReportedOrder ==
  (Quiet /\ last.op = "getMessages" /\ last.err = "none")
  => \A i, j \in 1..Len(last.list) :
       (i < j /\ messages[last.list[i]].createdAt = messages[last.list[j]].createdAt)
       => PositionIn(last.answer, last.list[i]) < PositionIn(last.answer, last.list[j])

\* ------------------------------------------------------------- TodoApp

MaxTodos == 2

MaxClock == 3

\* 24 * 60 * 60 * 1000: the milliseconds the reminder precedes the due date by
DayMs == 24 * 60 * 60 * 1000

\* The clock readings and the due dates of the scenarios lie half a day apart.
HalfDay == DayMs \div 2

\* Date.prototype.toISOString: the text of the instant ms
ToISOString(ms) == [text |-> "iso", ms |-> ms]

\* new Date(str).getTime(): the instant of an ISO text, NaN for any other text
GetTime(str) ==
  IF str.text = "iso" THEN [nan |-> FALSE, ms |-> str.ms] ELSE [nan |-> TRUE, ms |-> 0]

\* if (dueDate): undefined and the empty string are falsy
Truthy(str) == str.text \notin {"undefined", ""}

ReminderTimeAtDue(dueDate) == GetTime(dueDate)

\* new Date(dueDate.getTime() - 24 * 60 * 60 * 1000)
ReminderTime(dueDate) ==
  [nan |-> GetTime(dueDate).nan, ms |-> GetTime(dueDate).ms - DayMs]

\* reminderTime > new Date(): false for an invalid date
After(date, clock) == ~date.nan /\ date.ms > clock

\* The dueDate arguments of the scenarios: none, the empty string, a text
\* that is no date, and instants two to four half-days after the epoch.
DueDates ==
  {Undefined, [text |-> "", ms |-> 0], [text |-> "soon", ms |-> 0]}
    \cup {ToISOString(k * HalfDay) : k \in 2..4}

TodoLogin(u) ==
  /\ todoPc = "idle"
  /\ todoUser' = u
  /\ UNCHANGED <<todos, reminders, now, todoPc, todoLoc>>
  /\ UNCHANGED <<chatVars, clickerVars, gameVars>>

TodoLogout ==
  /\ todoPc = "idle"
  /\ todoUser # NoUser
  /\ todoUser' = NoUser
  /\ UNCHANGED <<todos, reminders, now, todoPc, todoLoc>>
  /\ UNCHANGED <<chatVars, clickerVars, gameVars>>

\* Half a day passes.
ClockTick ==
  /\ now < MaxClock * HalfDay
  /\ now' = now + HalfDay
  /\ UNCHANGED <<todoUser, todos, reminders, todoPc, todoLoc>>
  /\ UNCHANGED <<chatVars, clickerVars, gameVars>>

\* A todo record stays in the sequence after data.delete, marked deleted, so
\* that the ids, which are positions, stay what they were.
\* createTodo up to the answer of data.create; ok = the store's success flag
CreateTodo(title, dueDate, ok) ==
  /\ todoPc = "idle"
  /\ Len(todos) < MaxTodos
  /\ IF todoUser = NoUser \/ ~ok
       THEN UNCHANGED <<todos, todoPc, todoLoc>>
       ELSE /\ todos' = Append(todos,
                 [userId |-> todoUser, title |-> title, completed |-> FALSE,
                  dueDate |-> dueDate, createdAt |-> ToISOString(now),
                  updatedAt |-> ToISOString(now), deleted |-> FALSE])
            /\ IF Truthy(dueDate)
                 THEN /\ todoPc' = "schedule"
                      /\ todoLoc' = [id |-> Len(todos) + 1, title |-> title,
                                     dueDate |-> dueDate]
                 ELSE UNCHANGED <<todoPc, todoLoc>>
  /\ UNCHANGED <<todoUser, reminders, now>>
  /\ UNCHANGED <<chatVars, clickerVars, gameVars>>

\* scheduleReminder(todo), then the return of the calling operation;
\* ok = the notifier's success flag
ScheduleReminder(ok) ==
  /\ todoPc = "schedule"
  /\ IF ~Truthy(todoLoc.dueDate) \/ todoUser = NoUser
       THEN UNCHANGED reminders
       ELSE LET reminderTime == ReminderTime(todoLoc.dueDate)
            IN IF After(reminderTime, now)
                 THEN reminders' = Append(reminders,
                        [userId |-> todoUser, type |-> "email",
                         scheduledAt |-> ToISOString(reminderTime.ms),
                         todoId |-> todoLoc.id, ok |-> ok])
                 ELSE UNCHANGED reminders
  /\ todoPc' = "idle"
  /\ todoLoc' = NoTodo
  /\ UNCHANGED <<todoUser, todos, now>>
  /\ UNCHANGED <<chatVars, clickerVars, gameVars>>

\* Two users take turns at one TodoApp instance and create todos with every
\* kind of due date while the clock advances.
NextTodo ==
  \/ \E u \in {"u1", "u2"} : TodoLogin(u)
  \/ TodoLogout
  \/ ClockTick
  \/ \E d \in DueDates, ok \in BOOLEAN : CreateTodo("t", d, ok)
  \/ \E ok \in BOOLEAN : ScheduleReminder(ok)

SpecTodo == Init /\ [][NextTodo]_vars

\* The step in which a createTodo call with a due date finishes requests one
\* reminder for the todo's owner at the due instant minus a day if that
\* instant is later than the clock reading, and none otherwise; no other
\* step requests a reminder, and a todo created without a due date ends the
\* call at once.
C23_Step ==
  /\ todoPc = "idle" => reminders' = reminders
  /\ todos' # todos
     => /\ Len(todos') = Len(todos) + 1
        /\ todoPc' = (IF todos'[Len(todos')].dueDate.text \in {"undefined", ""}
                        THEN "idle" ELSE "schedule")
        /\ todoPc' = "schedule" => todoLoc'.id = Len(todos')
  /\ (todoPc = "schedule" /\ todoPc' = "idle")
     => LET todo == todos[todoLoc.id]
            valid == todo.dueDate.text = "iso"
            at == todo.dueDate.ms - DayMs
        IN IF valid /\ at > now
             THEN /\ Len(reminders') = Len(reminders) + 1
                  /\ SubSeq(reminders', 1, Len(reminders)) = reminders
                  /\ reminders'[Len(reminders')].userId = todo.userId
                  /\ reminders'[Len(reminders')].todoId = todoLoc.id
                  /\ reminders'[Len(reminders')].scheduledAt = ToISOString(at)
             ELSE reminders' = reminders

\* C23: createTodo with a due date whose instant minus 24 hours is still in
\* the future schedules exactly one reminder, for the owner, at exactly that
\* instant; with no due date, or when that instant has passed, it schedules
\* none.
C23_ReminderOneDayBefore == [][C23_Step]_vars

\* Two todos with due dates have been created: the first got its reminder a
\* day ahead, the second, due less than a day after its creation, got none.
C23_Witness ==
  /\ todoPc = "idle" /\ Len(todos) = 2
  /\ todos[1].dueDate.text = "iso" /\ todos[2].dueDate.text = "iso"
  /\ Len(reminders) = 1 /\ reminders[1].todoId = 1
  /\ reminders[1].scheduledAt = ToISOString(todos[1].dueDate.ms - DayMs)
  /\ todos[2].dueDate.ms - DayMs < todos[2].createdAt.ms

\* ------------------------------------------------------------- ClickerGame

MaxScore == 2

MaxRounds == 2

\* setTimeLeft(10): the length of a round in seconds
RoundSeconds == 10

\* The logged-in player the component was rendered for.
Player == "u1"

\* The closure of the render that commits the state (s, b): the score and
\* the best score its effect and its endGame see.
RenderOf(s, b) == [due |-> TRUE, score |-> s, myBest |-> b]

CountdownByTwo(t) == t - 2

\* setTimeLeft(timeLeft - 1), timeLeft being the value the timeout captured
Countdown(t) == t - 1

\* endGame as called from the effect of the render `closure`, up to its
\* await: the round is marked over and the closure's score is posted.
EndGame(closure) ==
  /\ isPlaying' = FALSE
  /\ leaderboard' = Append(leaderboard, [playerId |-> Player, score |-> closure.score])
  /\ ending' = Append(ending,
       [score |-> closure.score, myBest |-> closure.myBest, stage |-> "create"])
  /\ effect' = RenderOf(score', myBest)

\* The timer effect of the render `closure`, after the previous effect's
\* cleanup: arm the next tick, or end the round at 0.
TimerEffect(closure) ==
  IF isPlaying /\ timeLeft > 0
    THEN /\ timer' = timeLeft
         /\ effect' = NoRender
         /\ UNCHANGED <<isPlaying, leaderboard, ending>>
    ELSE IF timeLeft = 0 /\ isPlaying
      THEN /\ timer' = NoTimer
           /\ EndGame(closure)
      ELSE /\ timer' = NoTimer
           /\ effect' = NoRender
           /\ UNCHANGED <<isPlaying, leaderboard, ending>>

\* The start button, rendered while no round is in progress.
StartGame ==
  /\ ~isPlaying
  /\ Len(leaderboard) < MaxRounds
  /\ score' = 0
  /\ timeLeft' = RoundSeconds
  /\ isPlaying' = TRUE
  /\ timer' = NoTimer
  /\ effect' = RenderOf(0, myBest)
  /\ UNCHANGED <<myBest, leaderboard, ending>>
  /\ UNCHANGED <<chatVars, todoVars, gameVars>>

\* The timeout armed by the effect fires after a second.
TimerFires ==
  /\ timer # NoTimer
  /\ timeLeft' = Countdown(timer)
  /\ timer' = NoTimer
  /\ effect' = RenderOf(score, myBest)
  /\ UNCHANGED <<score, isPlaying, myBest, leaderboard, ending>>
  /\ UNCHANGED <<chatVars, todoVars, gameVars>>

\* The scheduler runs the effect of the last render.
RunEffect ==
  /\ effect.due
  /\ UNCHANGED <<score, timeLeft, myBest>>
  /\ TimerEffect(effect)
  /\ UNCHANGED <<chatVars, todoVars, gameVars>>

\* The click button, rendered while a round is in progress. An effect that
\* has not run yet is run before the click's render, with the closure of its
\* own render.
HandleClick ==
  /\ isPlaying
  /\ score < MaxScore
  /\ score' = (IF isPlaying THEN score + 1 ELSE score)
  /\ IF effect.due
       THEN TimerEffect(effect)
       ELSE UNCHANGED <<isPlaying, leaderboard, timer, effect, ending>>
  /\ UNCHANGED <<timeLeft, myBest>>
  /\ UNCHANGED <<chatVars, todoVars, gameVars>>

\* The ending calls but the i-th.
Without(i) == SubSeq(ending, 1, i - 1) \o SubSeq(ending, i + 1, Len(ending))

\* endGame after the store answered its create (ok), or the request failed.
EndGameResume(i, ok) ==
  /\ i \in 1..Len(ending)
  /\ ending[i].stage = "create"
  /\ IF ok
       THEN /\ myBest' = (IF ending[i].score > ending[i].myBest
                            THEN ending[i].score ELSE myBest)
            /\ ending' = [ending EXCEPT ![i].stage = "list"]
       ELSE /\ ending' = Without(i)
            /\ UNCHANGED myBest
  /\ UNCHANGED <<score, timeLeft, isPlaying, leaderboard, timer, effect>>
  /\ UNCHANGED <<chatVars, todoVars, gameVars>>

\* The highest score among the entries.
BestOf(entries) ==
  CHOOSE s \in {entries[k].score : k \in 1..Len(entries)} :
    \A k \in 1..Len(entries) : entries[k].score <= s

\* loadLeaderboard after the store answered its list (ok = success flag).
LoadLeaderboard(i, ok) ==
  /\ i \in 1..Len(ending)
  /\ ending[i].stage = "list"
  /\ myBest' = (IF ok /\ Len(leaderboard) > 0 THEN BestOf(leaderboard) ELSE myBest)
  /\ ending' = Without(i)
  /\ UNCHANGED <<score, timeLeft, isPlaying, leaderboard, timer, effect>>
  /\ UNCHANGED <<chatVars, todoVars, gameVars>>

\* The game as long as the component stays mounted: the player starts
\* rounds and clicks, timeouts fire, effects run, the store answers.
NextClicker ==
  \/ StartGame
  \/ TimerFires
  \/ RunEffect
  \/ HandleClick
  \/ \E i \in 1..MaxRounds, ok \in BOOLEAN : EndGameResume(i, ok)
  \/ \E i \in 1..MaxRounds, ok \in BOOLEAN : LoadLeaderboard(i, ok)

SpecClicker == Init /\ [][NextClicker]_vars

\* The browser fires an armed timeout and React runs a scheduled effect.
SpecClickerLive == SpecClicker /\ WF_vars(TimerFires) /\ WF_vars(RunEffect)

\* The countdown only steps down by one second during a round or is reset
\* to 10 by the start of one; a round starts at 10 with score 0 and ends
\* only at 0, posting one entry; nothing else posts an entry; the score
\* only grows by one click at a time during a round.
C24_Step ==
  /\ timeLeft' # timeLeft
     => \/ isPlaying /\ isPlaying' /\ timeLeft' = timeLeft - 1
        \/ ~isPlaying /\ isPlaying' /\ timeLeft' = 10
  /\ (~isPlaying /\ isPlaying') => (timeLeft' = 10 /\ score' = 0)
  /\ (isPlaying /\ ~isPlaying')
     => (timeLeft = 0 /\ timeLeft' = 0 /\ Len(leaderboard') = Len(leaderboard) + 1)
  /\ leaderboard' # leaderboard
     => /\ isPlaying /\ ~isPlaying'
        /\ SubSeq(leaderboard', 1, Len(leaderboard)) = leaderboard
  /\ score' # score
     => \/ isPlaying /\ score' = score + 1
        \/ ~isPlaying /\ isPlaying' /\ score' = 0

\* C24: a round lasts 10 seconds: startGame sets the countdown to 10, it
\* goes down to 0 one second at a time, the round ends when and only when it
\* has reached 0, every started round posts exactly one leaderboard entry,
\* and a click changes the score only during a round.
C24_TenSecondRound ==
  /\ [](timeLeft \in 0..10)
  /\ [][C24_Step]_vars
  /\ (isPlaying ~> (timeLeft = 0))
  /\ ((isPlaying /\ timeLeft = 0) ~> ~isPlaying)

\* A round has been played to the end with two clicks and its entry posted.
C24_Witness ==
  /\ ~isPlaying /\ timeLeft = 0 /\ score = 2
  /\ Len(leaderboard) = 1 /\ leaderboard[1].score = 2

\* ------------------------------------------------------------- sessions

\* Logins that may be refused or may fail while tracking presence, logouts,
\* and the reading operations, for two instances over the chat at rest.
NextLogin ==
  \/ \E c \in Clients, ok \in BOOLEAN :
       OthersIdle(c) /\ user[c] = NoUser
         /\ LoginAuth(c, IF c = "c1" THEN "u1" ELSE "u2", ok)
  \/ \E c \in Clients, ok \in BOOLEAN : LoginPresence(c, ok)
  \/ \E c \in Clients : OthersIdle(c) /\ Logout(c)
  \/ \E c \in Clients : OthersIdle(c) /\ GetRooms(c)
  \/ \E c \in Clients : OthersIdle(c) /\ GetUnreadCount(c, 1)
  \/ \E c \in Clients : OthersIdle(c) /\ MarkAsRead(c, <<1>>)
  \/ \E c \in Clients : MarkAsReadFind(c, TRUE)
  \/ \E c \in Clients : MarkAsReadWrite(c, TRUE)

SpecLogin == InitLoggedOut /\ [][NextLogin]_vars

\* C31: a login call that throws, at the authentication or at the presence
\* tracking that follows it, leaves the session of its instance unset.
C31_FailedLoginUnauthenticated ==
  [][(last' # last /\ last'.op = "login" /\ last'.err # "none")
       => user'[last'.client] = NoUser]_vars

\* The user each instance is logged in as when it invokes a call.
Invoker(c) == IF c = "c1" THEN "u1" ELSE "u2"

\* The instance c1 leaves rooms, marks messages as read and sends as u1, one
\* call at a time; while a call waits for an answer, a logout or a login of
\* u3 runs on the same instance; between calls it logs in as u1 again.
NextOverlap ==
  \/ LoginBeside("c1", "u3")
  \/ LogoutBeside("c1")
  \/ user["c1"] # Invoker("c1") /\ Logout("c1")
  \/ Login("c1", Invoker("c1"))
  \/ \E r \in RoomIds : user["c1"] = Invoker("c1") /\ LeaveFind("c1", r)
  \/ LeaveWrite("c1")
  \/ \E m \in MsgIds : user["c1"] = Invoker("c1") /\ MarkAsRead("c1", <<m>>)
  \/ MarkAsReadFind("c1", TRUE)
  \/ MarkAsReadWrite("c1", TRUE)
  \/ user["c1"] = Invoker("c1") /\ SendMessageCreate("c1", 1, "hi", "text", 1, TRUE)
  \/ SendMessageTouch("c1")
  \/ SendMessageLookup("c1")
  \/ SendMessageNotify("c1", TRUE)

SpecOverlap == InitChat /\ [][NextOverlap]_vars

\* Whatever happens to the session while a call waits, the call removes its
\* invoker from the members, adds its invoker to readBy, notifies in its
\* invoker's name and not its invoker, and does not end in a TypeError.
C32_Step ==
  /\ \A c \in Clients :
       /\ (pc[c] = "leave_write" /\ rooms' # rooms)
          => LET r == loc[c].roomId
             IN IF rooms'[r].live
                  THEN rooms'[r].members = FilterOut(loc[c].snap, Invoker(c))
                  ELSE FilterOut(loc[c].snap, Invoker(c)) = <<>>
       /\ (pc[c] = "mark_write" /\ messages' # messages)
          => messages'[Head(loc[c].ids)].readBy = Append(loc[c].snap, Invoker(c))
       /\ (pc[c] = "send_notify" /\ sent' # sent)
          => /\ sent'[Len(sent')].senderId = Invoker(c)
             /\ sent'[Len(sent')].userId # Invoker(c)
  /\ last' # last => last'.err # "TypeError"

\* C32: a leaveRoom, markAsRead or sendMessage acts for the user who was
\* logged in when it was invoked, also when a logout or a login of another
\* user on the same instance falls between its awaits, and it does not crash
\* on the unset session.
C32_ActsForInvoker == [][C32_Step]_vars

\* C33: every message of a stored room is stored by a member of the room: a
\* sendMessage of a logged-in user who is not among the room's members
\* appends no message, leaves the room's lastMessageAt alone and notifies
\* nobody.
C33_AuthorIsMember ==
  [][/\ Len(messages') > Len(messages)
        => LET message == messages'[Len(messages')]
           IN Live(message.roomId)
                => Includes(rooms[message.roomId].members, message.userId)
     /\ \A c \in Clients :
          (pc[c] \in {"send_touch", "send_lookup", "send_notify"}
             /\ Live(loc[c].roomId)
             /\ ~Includes(rooms[loc[c].roomId].members, messages[loc[c].msgId].userId))
          => (rooms' = rooms /\ sent' = sent)]_vars

\* The call that returned last is a successful leaveRoom(1) of u1 on c1.
LeftAsU1 ==
  /\ last.client = "c1" /\ last.op = "leaveRoom" /\ last.arg = 1
  /\ last.user = "u1" /\ last.err = "none"

\* u1 on c1 and u2 on c2 leave room 1 and u2 sends into it, their steps
\* interleaving; once the leaveRoom of u1 has returned, c1 logs out and in
\* again as u3, a member of room 1, and only then sends into the room.
NextLeft ==
  \/ \E c \in Clients : user[c] \in {"u1", "u2"} /\ LeaveFind(c, 1)
  \/ \E c \in Clients : LeaveWrite(c)
  \/ LeftAsU1 /\ Logout("c1")
  \/ Login("c1", "u3")
  \/ \E t \in Times :
       user["c1"] = "u3" /\ SendMessageCreate("c1", 1, "hi", "text", t, TRUE)
  \/ \E t \in Times : SendMessageCreate("c2", 1, "hi", "text", t, TRUE)
  \/ \E c \in Clients : SendMessageTouch(c)
  \/ \E c \in Clients : SendMessageLookup(c)
  \/ \E c \in Clients : SendMessageNotify(c, TRUE)

SpecLeft == InitChat /\ [][NextLeft]_vars

\* C34: a user whose leaveRoom on a room has returned successfully gets no
\* notification for a message sent into the room afterwards, however the
\* leaveRoom and sendMessage calls of the other members interleave: u1 gets
\* none for the messages u3 sends from c1, all of them invoked after the
\* leaveRoom(1) of u1 returned.
C34_NoNotificationAfterLeave ==
  \A i \in 1..Len(sent) :
    (sent[i].messageId > 1 /\ sent[i].senderId = "u3" /\ sent[i].roomId = 1)
    => sent[i].userId # "u1"

\* Leaving, sending, listing the rooms and counting the unread messages in
\* the chat in progress, one call at a time.
NextUnread ==
  \/ \E c \in Clients, r \in RoomIds : OthersIdle(c) /\ LeaveFind(c, r)
  \/ \E c \in Clients : LeaveWrite(c)
  \/ \E c \in Clients, r \in RoomIds :
       OthersIdle(c) /\ SendMessageCreate(c, r, "hi", "text", 1, TRUE)
  \/ \E c \in Clients : SendMessageTouch(c)
  \/ \E c \in Clients : SendMessageLookup(c)
  \/ \E c \in Clients : SendMessageNotify(c, TRUE)
  \/ \E c \in Clients : OthersIdle(c) /\ GetRooms(c)
  \/ \E c \in Clients, r \in 0..MaxRooms : OthersIdle(c) /\ GetUnreadCount(c, r)

SpecUnread == InitChat /\ [][NextUnread]_vars

\* The stored messages u has not read in the rooms getRooms returns to u,
\* that is, in the stored rooms u is a member of.
UnreadInOwnRooms(u) ==
  {m \in 1..Len(messages) :
     /\ ~Includes(messages[m].readBy, u)
     /\ Live(messages[m].roomId)
     /\ Includes(rooms[messages[m].roomId].members, u)}

\* C35: getUnreadCount without a roomId counts only the unread messages of
\* the rooms the caller is a member of at that moment: its result is the sum
\* of getUnreadCount(roomId) over the rooms of getRooms, and messages of
\* rooms the caller never joined or has left add nothing to it.
C35_UnreadOnlyInOwnRooms ==
  [][(last' # last /\ last'.op = "getUnreadCount" /\ last'.arg = 0
        /\ last'.err = "none")
       => last'.val = Cardinality(UnreadInOwnRooms(last'.user))]_vars

\* ---------------------------------------------------------------------------
\* GameApp: save data, leaderboard and achievements of one player. A call is
\* split at each await whose answer the rest of the call depends on; savedAt,
\* unlockedAt and createdAt, which nothing here reads, are left out of the
\* records.
\* ---------------------------------------------------------------------------

MaxRecords == 2

SecondsPerMinute == 60
HourMinutes == 60
TenHourMinutes == 600
MasterScore == 10000
ExpertScore == 5000
NoviceScore == 1000

AchievementIds == {"arcade_master", "arcade_expert", "arcade_novice", "playtime_1h", "playtime_10h"}

\* the achievement checkScoreAchievements unlocks for a score, if any:
\* `${category}_master`, `${category}_expert` or `${category}_novice`
ScoreAchievement(category, s) ==
  LET tier == IF s >= MasterScore THEN "master"
              ELSE IF s >= ExpertScore THEN "expert"
              ELSE IF s >= NoviceScore THEN "novice"
              ELSE "none"
  IN CASE tier = "none" -> NoAchievement
       [] category = "arcade" /\ tier = "master" -> "arcade_master"
       [] category = "arcade" /\ tier = "expert" -> "arcade_expert"
       [] category = "arcade" /\ tier = "novice" -> "arcade_novice"

\* the achievements updatePlaytime unlocks for a number of seconds, in order
PlaytimeAchievements(seconds) ==
  (IF seconds \div SecondsPerMinute >= HourMinutes THEN <<"playtime_1h">> ELSE <<>>)
  \o (IF seconds \div SecondsPerMinute >= TenHourMinutes THEN <<"playtime_10h">> ELSE <<>>)

GameAuthenticated == player # NoUser

\* the ids of the save_data records of a player and slot
SaveIds(p, slot) ==
  {i \in 1..Len(saves) : saves[i].playerId = p /\ saves[i].slot = slot}

\* the ids of the achievements records of a player and achievement
UnlockIds(p, a) ==
  {i \in 1..Len(achievements) :
     achievements[i].playerId = p /\ achievements[i].achievementId = a}

\* findOne answers one of the matching records, or null (0) if there is none
FindOneIn(ids) == IF ids = {} THEN {0} ELSE ids

GameReturn(k, op, arg, val, writes) ==
  /\ gamePc' = [gamePc EXCEPT ![k] = "idle"]
  /\ gameLoc' = [gameLoc EXCEPT ![k] = GameIdle]
  /\ gameLast' = [call |-> k, op |-> op, arg |-> arg, val |-> val, writes |-> writes]

\* login whose calls all succeed, as one step
GameLogin(u) ==
  /\ \A k \in Calls : gamePc[k] = "idle"
  /\ player = NoUser
  /\ player' = u
  /\ gameLast' = [call |-> "none", op |-> "login", arg |-> 0, val |-> NoData, writes |-> 0]
  /\ UNCHANGED <<saves, achievements, scores, unlockSent, gamePc, gameLoc, saved>>
  /\ UNCHANGED <<chatVars, todoVars, clickerVars>>

\* saveGame up to the answer of findOne
SaveGameFind(k, slot, data, playtime) ==
  /\ gamePc[k] = "idle"
  /\ IF ~GameAuthenticated
     THEN GameReturn(k, "saveGame", slot, "Not authenticated", 0)
     ELSE \E existing \in FindOneIn(SaveIds(player, slot)) :
            /\ gamePc' = [gamePc EXCEPT ![k] = "save_write"]
            /\ gameLoc' = [gameLoc EXCEPT ![k] =
                 [GameIdle EXCEPT !.slot = slot, !.data = data,
                                  !.playtime = playtime, !.existing = existing]]
            /\ UNCHANGED gameLast
  /\ UNCHANGED <<player, saves, achievements, scores, unlockSent, saved>>
  /\ UNCHANGED <<chatVars, todoVars, clickerVars>>

\* saveGame from the answer of findOne: update the record found, or create one
SaveGameWrite(k) ==
  /\ gamePc[k] = "save_write"
  /\ LET l == gameLoc[k] IN
       /\ IF l.existing # 0
          THEN saves' = [saves EXCEPT ![l.existing].data = l.data,
                                      ![l.existing].playtime = l.playtime]
          ELSE /\ Len(saves) < MaxRecords
               /\ saves' = Append(saves, [playerId |-> player, slot |-> l.slot,
                                          data |-> l.data, playtime |-> l.playtime])
       /\ saved' = [saved EXCEPT ![l.slot] = l.data]
       /\ GameReturn(k, "saveGame", l.slot, l.data, 1)
  /\ UNCHANGED <<player, achievements, scores, unlockSent>>
  /\ UNCHANGED <<chatVars, todoVars, clickerVars>>

LoadGame(k, slot) ==
  /\ gamePc[k] = "idle"
  /\ IF ~GameAuthenticated
     THEN GameReturn(k, "loadGame", slot, "Not authenticated", 0)
     ELSE \E found \in FindOneIn(SaveIds(player, slot)) :
            GameReturn(k, "loadGame", slot,
                       IF found = 0 THEN NoData ELSE saves[found].data, 0)
  /\ UNCHANGED <<player, saves, achievements, scores, unlockSent, saved>>
  /\ UNCHANGED <<chatVars, todoVars, clickerVars>>

\* a direct call of unlockAchievement, up to the findOne it issues
UnlockAchievement(k, a) ==
  /\ gamePc[k] = "idle"
  /\ IF ~GameAuthenticated
     THEN GameReturn(k, "unlockAchievement", 0, "Not authenticated", 0)
     ELSE /\ gamePc' = [gamePc EXCEPT ![k] = "unlock_find"]
          /\ gameLoc' = [gameLoc EXCEPT ![k] =
               [GameIdle EXCEPT !.achievementId = a, !.op = "unlockAchievement"]]
          /\ UNCHANGED gameLast
  /\ UNCHANGED <<player, saves, achievements, scores, unlockSent, saved>>
  /\ UNCHANGED <<chatVars, todoVars, clickerVars>>

\* the end of one unlockAchievement inside call k, which answered val: the
\* caller goes on with its next unlock, or returns
UnlockDone(k, val, writes) ==
  LET l == gameLoc[k] IN
    IF l.next # NoAchievement
    THEN /\ gamePc' = [gamePc EXCEPT ![k] = "unlock_find"]
         /\ gameLoc' = [gameLoc EXCEPT ![k].achievementId = l.next,
                                       ![k].next = NoAchievement,
                                       ![k].existing = 0]
         /\ gameLast' = [call |-> k, op |-> "unlockAchievement", arg |-> 0,
                         val |-> val, writes |-> writes]
    ELSE GameReturn(k, l.op, l.arg, val, writes)

\* unlockAchievement at the answer of findOne
UnlockFind(k) ==
  /\ gamePc[k] = "unlock_find"
  /\ \E existing \in FindOneIn(UnlockIds(player, gameLoc[k].achievementId)) :
       IF existing # 0
       THEN UnlockDone(k, NoAchievement, 0)
       ELSE /\ gamePc' = [gamePc EXCEPT ![k] = "unlock_create"]
            /\ UNCHANGED <<gameLoc, gameLast>>
  /\ UNCHANGED <<player, saves, achievements, scores, unlockSent, saved>>
  /\ UNCHANGED <<chatVars, todoVars, clickerVars>>

\* unlockAchievement creating the record
UnlockCreate(k) ==
  /\ gamePc[k] = "unlock_create"
  /\ Len(achievements) < MaxRecords
  /\ achievements' = Append(achievements,
       [playerId |-> player, achievementId |-> gameLoc[k].achievementId])
  /\ gamePc' = [gamePc EXCEPT ![k] = "unlock_notify"]
  /\ UNCHANGED <<player, saves, scores, unlockSent, gameLoc, gameLast, saved>>
  /\ UNCHANGED <<chatVars, todoVars, clickerVars>>

\* unlockAchievement from the definition lookup to its return
UnlockNotify(k, definition) ==
  /\ gamePc[k] = "unlock_notify"
  /\ unlockSent' =
       IF definition
       THEN Append(unlockSent, [userId |-> player, type |-> "push",
                                achievementId |-> gameLoc[k].achievementId])
       ELSE unlockSent
  /\ UnlockDone(k, gameLoc[k].achievementId, 1)
  /\ UNCHANGED <<player, saves, achievements, scores, saved>>
  /\ UNCHANGED <<chatVars, todoVars, clickerVars>>

\* submitScore up to the unlockAchievement of checkScoreAchievements
SubmitScore(k, category, s) ==
  /\ gamePc[k] = "idle"
  /\ IF ~GameAuthenticated
     THEN /\ GameReturn(k, "submitScore", s, "Not authenticated", 0)
          /\ UNCHANGED scores
     ELSE /\ Len(scores) < MaxRecords
          /\ scores' = Append(scores, [playerId |-> player, score |-> s,
                                       category |-> category])
          /\ IF ScoreAchievement(category, s) = NoAchievement
             THEN GameReturn(k, "submitScore", s, "entry", 0)
             ELSE /\ gamePc' = [gamePc EXCEPT ![k] = "unlock_find"]
                  /\ gameLoc' = [gameLoc EXCEPT ![k] =
                       [GameIdle EXCEPT !.achievementId = ScoreAchievement(category, s),
                                        !.op = "submitScore", !.arg = s]]
                  /\ UNCHANGED gameLast
  /\ UNCHANGED <<player, saves, achievements, unlockSent, saved>>
  /\ UNCHANGED <<chatVars, todoVars, clickerVars>>

\* updatePlaytime up to its first unlockAchievement
UpdatePlaytime(k, seconds) ==
  /\ gamePc[k] = "idle"
  /\ LET as == PlaytimeAchievements(seconds) IN
       IF ~GameAuthenticated \/ as = <<>>
       THEN GameReturn(k, "updatePlaytime", seconds, NoData, 0)
       ELSE /\ gamePc' = [gamePc EXCEPT ![k] = "unlock_find"]
            /\ gameLoc' = [gameLoc EXCEPT ![k] =
                 [GameIdle EXCEPT !.achievementId = as[1],
                                  !.next = IF Len(as) > 1 THEN as[2] ELSE NoAchievement,
                                  !.op = "updatePlaytime", !.arg = seconds]]
            /\ UNCHANGED gameLast
  /\ UNCHANGED <<player, saves, achievements, scores, unlockSent, saved>>
  /\ UNCHANGED <<chatVars, todoVars, clickerVars>>

\* saveGame and loadGame calls of one player that may overlap
NextSave ==
  \/ GameLogin("u1")
  \/ \E k \in Calls, slot \in Slots, data \in {"a", "b"} : SaveGameFind(k, slot, data, 1)
  \/ \E k \in Calls : SaveGameWrite(k)
  \/ \E k \in Calls, slot \in Slots : LoadGame(k, slot)

SpecSave == Init /\ [][NextSave]_vars

C36_OnePerSlot ==
  \A p \in Users, slot \in Slots : Cardinality(SaveIds(p, slot)) <= 1

C36_LoadStep ==
  (gameLast' # gameLast /\ gameLast'.op = "loadGame" /\ GameAuthenticated)
    => gameLast'.val = saved[gameLast'.arg]

\* C36: saveGame is an upsert per slot: whatever saveGame calls of one player
\* ran or overlapped, save_data holds at most one record per (playerId, slot),
\* and loadGame(slot) returns the data of the saveGame that completed last for
\* that slot.
C36_UpsertPerSlot == []C36_OnePerSlot /\ [][C36_LoadStep]_vars

\* unlockAchievement calls of one player, direct or made by submitScore and
\* updatePlaytime, that may overlap
NextUnlock ==
  \/ GameLogin("u1")
  \/ \E k \in Calls, a \in {"playtime_1h", "arcade_novice"} : UnlockAchievement(k, a)
  \/ \E k \in Calls : UnlockFind(k)
  \/ \E k \in Calls : UnlockCreate(k)
  \/ \E k \in Calls, definition \in BOOLEAN : UnlockNotify(k, definition)
  \/ \E k \in Calls, s \in {0, NoviceScore, ExpertScore, MasterScore} :
       SubmitScore(k, "arcade", s)
  \/ \E k \in Calls, minutes \in {0, HourMinutes, TenHourMinutes} :
       UpdatePlaytime(k, minutes * SecondsPerMinute)

SpecUnlock == Init /\ [][NextUnlock]_vars

\* the unlock notifications sent to a player for an achievement
UnlockNotices(p, a) ==
  {i \in 1..Len(unlockSent) : unlockSent[i].userId = p /\ unlockSent[i].achievementId = a}

C37_AtMostOnce ==
  \A p \in Users, a \in AchievementIds :
    /\ Cardinality(UnlockIds(p, a)) <= 1
    /\ Cardinality(UnlockNotices(p, a)) <= 1

C37_NullStep ==
  \A k \in Calls :
    (/\ gamePc[k] = "unlock_find"
     /\ UnlockIds(player, gameLoc[k].achievementId) # {}
     /\ <<gamePc[k], gameLoc[k]>>' # <<gamePc[k], gameLoc[k]>>)
      => /\ gamePc'[k] # "unlock_create"
         /\ gameLast'.call = k /\ gameLast'.val = NoAchievement /\ gameLast'.writes = 0
         /\ achievements' = achievements
         /\ unlockSent' = unlockSent

\* C37: unlockAchievement unlocks at most once: whatever unlockAchievement
\* calls ran or overlapped (direct, or made by submitScore and updatePlaytime),
\* there is at most one achievements record per (playerId, achievementId) and
\* at most one unlock notification for it, and a call for an achievement that
\* is already unlocked answers null and writes nothing.
C37_UnlockAtMostOnce == []C37_AtMostOnce /\ [][C37_NullStep]_vars

\* ------------------------------------------ TodoApp: changes to a todo

MaxReminders == 2

\* The updates of the scenarios are a new due date or completed: true.

\* the todo the store holds under an id
Stored(id) == id \in 1..Len(todos) /\ ~todos[id].deleted

\* updateTodo up to the answer of data.update, which fails for an id the
\* store does not hold
UpdateTodo(id, updates) ==
  /\ todoPc = "idle"
  /\ IF todoUser = NoUser \/ ~Stored(id)
       THEN UNCHANGED <<todos, todoPc, todoLoc>>
       ELSE /\ todos' = [todos EXCEPT ![id] =
                 [@ EXCEPT !.completed = IF "completed" \in updates.keys
                                           THEN updates.completed ELSE @,
                           !.dueDate = IF "dueDate" \in updates.keys
                                         THEN updates.dueDate ELSE @,
                           !.updatedAt = ToISOString(now)]]
            /\ IF "dueDate" \in updates.keys /\ Truthy(updates.dueDate)
                 THEN /\ todoPc' = "schedule"
                      /\ todoLoc' = [id |-> id, title |-> todos[id].title,
                                     dueDate |-> updates.dueDate]
                 ELSE UNCHANGED <<todoPc, todoLoc>>
  /\ UNCHANGED <<todoUser, reminders, now>>
  /\ UNCHANGED <<chatVars, clickerVars, gameVars>>

DeleteTodo(id) ==
  /\ todoPc = "idle"
  /\ IF todoUser = NoUser \/ ~Stored(id)
       THEN UNCHANGED todos
       ELSE todos' = [todos EXCEPT ![id].deleted = TRUE]
  /\ UNCHANGED <<todoUser, reminders, now, todoPc, todoLoc>>
  /\ UNCHANGED <<chatVars, clickerVars, gameVars>>

\* updateTodo(id, { completed: true })
CompleteTodo(id) ==
  UpdateTodo(id, [keys |-> {"completed"}, completed |-> TRUE, dueDate |-> Undefined])

\* One user creates todos, moves their due dates, completes and deletes them
\* while the clock advances; the store and the notifier accept every call.
NextChange ==
  \/ TodoLogin("u1")
  \/ ClockTick
  \/ \E d \in DueDates : CreateTodo("t", d, TRUE)
  \/ ScheduleReminder(TRUE)
  \/ \E id \in 1..MaxTodos, d \in DueDates \ {Undefined} :
       /\ Len(reminders) < MaxReminders
       /\ UpdateTodo(id, [keys |-> {"dueDate"}, completed |-> FALSE, dueDate |-> d])
  \/ \E id \in 1..MaxTodos : CompleteTodo(id)
  \/ \E id \in 1..MaxTodos : DeleteTodo(id)

SpecChange == Init /\ [][NextChange]_vars

\* the scheduled reminders of a todo whose time has not come yet
PendingReminders(id) ==
  {i \in 1..Len(reminders) :
     /\ reminders[i].todoId = id
     /\ reminders[i].ok
     /\ GetTime(reminders[i].scheduledAt).ms > now}

\* C38: between calls each todo has at most one pending scheduled reminder,
\* and that reminder is for the todo's current due date: none for an earlier
\* due date is left after updateTodo moved the date, and none at all is left
\* after deleteTodo or completeTodo.
C38_OneReminderPerTodo ==
  todoPc = "idle"
  => \A id \in 1..Len(todos) :
       /\ Cardinality(PendingReminders(id)) <= 1
       /\ \A i \in PendingReminders(id) :
            /\ ~todos[id].deleted
            /\ ~todos[id].completed
            /\ reminders[i].scheduledAt = ToISOString(ReminderTime(todos[id].dueDate).ms)

\* ------------------------------------------ ClickerGame: the posted score

\* C39: the entry posted when a round ends carries the score the player is
\* shown for that round: every click counted in the displayed score, also
\* one handled after the countdown reached 0 and before the round is marked
\* as not playing, is in the posted score.
C39_PostedScoreIsShownScore ==
  [][leaderboard' # leaderboard
       => leaderboard'[Len(leaderboard')].score = score']_vars

====
